---- MODULE Spec2Model ----
(***************************************************************************)
(* Model of the workflow engine of ai_developer (src/aidev/workflow.py):   *)
(* the run manifest file, WorkflowEngine.execute_manifest with its retry   *)
(* loop, WorkflowEngine.mark_steps_complete, and the WorkflowManifest      *)
(* helper through which a handed-off assistant updates the same file.      *)
(***************************************************************************)
EXTENDS Integers, Sequences, FiniteSets, TLC

(***************************************************************************)
(* Bounds of the model.                                                    *)
(***************************************************************************)
NumSteps == 2
MaxRetries == 1
MaxTime == 2
MaxRuns == 2

StepName(i) == <<"a", "b", "c", "d">>[i]
RetryBudgets == (-1)..MaxRetries
Objs == {"assistant"}
Writers == Objs \cup {"engine"}

\* Texts are sequences of one-character strings.
PlainText == <<"o", "k">>
PlainErr == <<"x">>
ResultTexts == {PlainText, <<"\\", "n">>}
ErrTexts == {PlainErr, <<"y">>}
ManualText == <<"m", "a", "n", "u", "a", "l">>
StatusArgs == {"ok", "failed"}
CustomStatus == "skipped"
MissingName == "nonexistent"
AllSteps == ""

(***************************************************************************)
(* JSON values stored in a step's output.result, and their text form.      *)
(***************************************************************************)
None == [kind |-> "null", text |-> <<>>, attempt |-> 0]
Str(s) == [kind |-> "str", text |-> s, attempt |-> 0]
RunnerResult(stdout) == [kind |-> "dict", text |-> stdout, attempt |-> 0]
ErrorResult(err, n) == [kind |-> "error", text |-> err, attempt |-> n]

EscapeCharNoBackslash(c) ==
    IF c = "\"" THEN <<"\\", "\"">>
    ELSE IF c = "\n" THEN <<"\\", "n">>
    ELSE <<c>>

EscapeChar(c) ==
    IF c = "\"" THEN <<"\\", "\"">>
    ELSE IF c = "\\" THEN <<"\\", "\\">>
    ELSE IF c = "\n" THEN <<"\\", "n">>
    ELSE <<c>>

RECURSIVE Escape(_)
Escape(s) == IF s = <<>> THEN <<>> ELSE EscapeChar(Head(s)) \o Escape(Tail(s))

EncodeString(s) == <<"\"">> \o Escape(s) \o <<"\"">>

UnescapeChar(c) == IF c = "n" THEN "\n" ELSE c

RECURSIVE Unescape(_)
Unescape(t) ==
    IF t = <<>> THEN <<>>
    ELSE IF Head(t) = "\\" /\ Len(t) >= 2
         THEN <<UnescapeChar(t[2])>> \o Unescape(SubSeq(t, 3, Len(t)))
         ELSE <<Head(t)>> \o Unescape(Tail(t))

DecodeString(t) == Unescape(SubSeq(t, 2, Len(t) - 1))

EncodeValue(v) ==
    IF v.kind = "null"
    THEN [kind |-> "null", text |-> <<"n", "u", "l", "l">>, attempt |-> 0]
    ELSE [v EXCEPT !.text = EncodeString(v.text)]

DecodeValue(e) ==
    IF e.kind = "null" THEN None ELSE [e EXCEPT !.text = DecodeString(e.text)]

\* json.dumps / json.loads of a whole manifest.
JsonDumps(d) ==
    [d EXCEPT !.steps = [i \in 1..Len(d.steps) |->
                            [d.steps[i] EXCEPT !.output.result = EncodeValue(@)]]]

JsonLoads(f) ==
    [f EXCEPT !.steps = [i \in 1..Len(f.steps) |->
                            [f.steps[i] EXCEPT !.output.result = DecodeValue(@)]]]

(***************************************************************************)
(* Texts given to run_workflow and their classification                     *)
(* (detect_ticket_source, detect_issue_context).  An optional string that   *)
(* is None is Absent; a text that is None or empty is <<>> (every test the  *)
(* code makes of a ticket or a prompt is a truth test).                     *)
(***************************************************************************)
Absent == "<None>"
Truthy(x) == x \notin {Absent, ""}

Upper == {"A", "B", "C", "D", "E", "F", "G", "H", "I", "J", "K", "L", "M",
          "N", "O", "P", "Q", "R", "S", "T", "U", "V", "W", "X", "Y", "Z"}
Digits == {"0", "1", "2", "3", "4", "5", "6", "7", "8", "9"}
IsUpper(c) == c \in Upper
IsDigit(c) == c \in Digits
\* A character class of a pattern: the characters in `of` (member) or all
\* the others ([^...]).
UpperClass == [member |-> TRUE, of |-> Upper]
DigitClass == [member |-> TRUE, of |-> Digits]
NotSlash == [member |-> FALSE, of |-> {"/"}]
NotHash == [member |-> FALSE, of |-> {"#"}]
NotBangHash == [member |-> FALSE, of |-> {"!", "#"}]
InClass(c, cls) == (c \in cls.of) = cls.member

\* w occurs in t at position i; w occurs in t.
StartsAt(t, i, w) == i + Len(w) - 1 <= Len(t) /\ SubSeq(t, i, i + Len(w) - 1) = w
Contains(t, w) == \E i \in 1..Len(t) : StartsAt(t, i, w)

\* End of the longest run of characters of class cls that starts at i
\* (i - 1 when the run is empty): a greedy [cls]+.
RunEnd(t, i, cls) ==
    IF i > Len(t) THEN i - 1
    ELSE CHOOSE j \in (i - 1)..Len(t) :
            /\ \A k \in i..j : InClass(t[k], cls)
            /\ j = Len(t) \/ ~InClass(t[j + 1], cls)

Min(S) == CHOOSE x \in S : \A y \in S : x <= y

\* re.search(r'([A-Z]+-\d+)', text): starts of a match, and the leftmost match.
JiraKeyStarts(t) ==
    {i \in 1..Len(t) :
        /\ IsUpper(t[i])
        /\ LET j == RunEnd(t, i, UpperClass)
           IN j + 2 <= Len(t) /\ t[j + 1] = "-" /\ IsDigit(t[j + 2])}

JiraKeyRightmost(t) ==
    LET i == CHOOSE x \in JiraKeyStarts(t) : \A y \in JiraKeyStarts(t) : y <= x
        j == RunEnd(t, i, UpperClass)
    IN SubSeq(t, i, RunEnd(t, j + 2, DigitClass))

JiraKey(t) ==
    LET i == Min(JiraKeyStarts(t))
        j == RunEnd(t, i, UpperClass)
    IN SubSeq(t, i, RunEnd(t, j + 2, DigitClass))

AtlassianNet == <<"a", "t", "l", "a", "s", "s", "i", "a", "n", ".", "n", "e", "t">>
GithubCom == <<"g", "i", "t", "h", "u", "b", ".", "c", "o", "m">>
GitlabCom == <<"g", "i", "t", "l", "a", "b", ".", "c", "o", "m">>
GitlabDot == <<"g", "i", "t", "l", "a", "b", ".">>
Issues == <<"i", "s", "s", "u", "e", "s">>
Pull == <<"p", "u", "l", "l">>
MergeRequests == <<"m", "e", "r", "g", "e", "_", "r", "e", "q", "u", "e", "s", "t", "s">>

\* ([^/]+)/([^/]+)<sep>(<kind>)/(\d+) matched from position a0 on.
PathAt(t, a0, sep, kinds) ==
    LET a == RunEnd(t, a0, NotSlash)
        b == RunEnd(t, a + 2, NotSlash)
        k0 == b + 1 + Len(sep)
        hit == {k \in kinds : StartsAt(t, k0, k \o <<"/">>)}
    IN IF /\ a >= a0 /\ a + 1 <= Len(t)
          /\ b >= a + 2 /\ StartsAt(t, b + 1, sep)
          /\ \E k \in hit : LET d0 == k0 + Len(k) + 1
                            IN d0 <= Len(t) /\ IsDigit(t[d0])
       THEN LET k == CHOOSE k \in hit : LET d0 == k0 + Len(k) + 1
                                         IN d0 <= Len(t) /\ IsDigit(t[d0])
                d0 == k0 + Len(k) + 1
            IN [ok |-> TRUE, owner |-> SubSeq(t, a0, a),
                repo |-> SubSeq(t, a + 2, b),
                num |-> SubSeq(t, d0, RunEnd(t, d0, DigitClass))]
       ELSE [ok |-> FALSE, owner |-> <<>>, repo |-> <<>>, num |-> <<>>]

\* re.search of host + "/" + the path pattern: the leftmost match.
UrlStarts(t, host, sep, kinds) ==
    {i + Len(host) + 1 : i \in {i \in 1..Len(t) :
        /\ StartsAt(t, i, host \o <<"/">>)
        /\ PathAt(t, i + Len(host) + 1, sep, kinds).ok}}

\* re.search(r'gitlab\.[^/]+/' + the path pattern): the leftmost match.
SelfHostedStarts(t) ==
    {RunEnd(t, i + Len(GitlabDot), NotSlash) + 2 : i \in {i \in 1..Len(t) :
        /\ StartsAt(t, i, GitlabDot)
        /\ LET h == RunEnd(t, i + Len(GitlabDot), NotSlash)
           IN /\ h >= i + Len(GitlabDot)
              /\ h + 1 <= Len(t)
              /\ PathAt(t, h + 2, <<"/", "-", "/">>, {Issues, MergeRequests}).ok}}

\* re.match(r'([^/]+)/(<cls>+)<one of marks>(\d+)', text)
ShorthandMatch(t, cls, marks) ==
    LET a == RunEnd(t, 1, NotSlash)
        b == RunEnd(t, a + 2, cls)
    IN /\ a >= 1 /\ a + 1 <= Len(t)
       /\ b >= a + 2 /\ b + 2 <= Len(t)
       /\ t[b + 1] \in marks
       /\ IsDigit(t[b + 2])

DetectTicketSourceTextFirst(ticket_arg, file_given) ==
    IF ticket_arg # <<>>
    THEN IF JiraKeyStarts(ticket_arg) # {} THEN "jira"
         ELSE IF Contains(ticket_arg, AtlassianNet) THEN "jira"
         ELSE IF \/ Contains(ticket_arg, GithubCom)
                 \/ ShorthandMatch(ticket_arg, NotHash, {"#"}) THEN "github"
         ELSE IF file_given THEN "file" ELSE "raw"
    ELSE IF file_given THEN "file" ELSE "raw"

\* detect_ticket_source(ticket_arg, file_arg); file_given: a ticket file was named.
DetectTicketSource(ticket_arg, file_given) ==
    IF file_given THEN "file"
    ELSE IF ticket_arg # <<>>
    THEN IF JiraKeyStarts(ticket_arg) # {} THEN "jira"
         ELSE IF Contains(ticket_arg, AtlassianNet) THEN "jira"
         ELSE IF \/ Contains(ticket_arg, GithubCom)
                 \/ ShorthandMatch(ticket_arg, NotHash, {"#"}) THEN "github"
         ELSE "raw"
    ELSE "raw"

IssueContextAlwaysIssue(is_issue, issue_type, issue_id, detected_pattern) ==
    [is_issue |-> TRUE, issue_type |-> issue_type,
     issue_id |-> issue_id, detected_pattern |-> detected_pattern]

IssueContext(is_issue, issue_type, issue_id, detected_pattern) ==
    [is_issue |-> is_issue, issue_type |-> issue_type,
     issue_id |-> issue_id, detected_pattern |-> detected_pattern]

DetectIssueContextUrlFirst(text) ==
    LET none == IssueContext(FALSE, Absent, <<>>, Absent)
        github == UrlStarts(text, GithubCom, <<"/">>, {Issues, Pull})
        m == PathAt(text, Min(github), <<"/">>, {Issues, Pull})
    IN IF text = <<>> THEN none
       ELSE IF Contains(text, AtlassianNet)
       THEN IssueContext(TRUE, "jira", <<>>, "atlassian_url")
       ELSE IF github # {}
       THEN IssueContext(TRUE, "github",
                m.owner \o <<"/">> \o m.repo \o <<"#">> \o m.num, "github_url")
       ELSE IF JiraKeyStarts(text) # {}
       THEN IssueContext(TRUE, "jira", JiraKey(text), "jira_key")
       ELSE none

\* detect_issue_context(text); an issue_id of None is <<>>.
DetectIssueContext(text) ==
    LET none == IssueContext(FALSE, Absent, <<>>, Absent)
        id(m, mark) == m.owner \o <<"/">> \o m.repo \o <<mark>> \o m.num
        github == UrlStarts(text, GithubCom, <<"/">>, {Issues, Pull})
        gitlab == UrlStarts(text, GitlabCom, <<"/", "-", "/">>, {Issues, MergeRequests})
        hosted == SelfHostedStarts(text)
    IN IF text = <<>> THEN none
       ELSE IF Contains(text, AtlassianNet)
       THEN IssueContext(TRUE, "jira", <<>>, "atlassian_url")
       ELSE IF JiraKeyStarts(text) # {}
       THEN IssueContext(TRUE, "jira", JiraKey(text), "jira_key")
       ELSE IF github # {}
       THEN IssueContext(TRUE, "github",
                id(PathAt(text, Min(github), <<"/">>, {Issues, Pull}), "#"),
                "github_url")
       ELSE IF ShorthandMatch(text, NotHash, {"#"})
       THEN IssueContext(TRUE, "github", text, "github_shorthand")
       ELSE IF gitlab # {}
       THEN IssueContext(TRUE, "gitlab",
                id(PathAt(text, Min(gitlab), <<"/", "-", "/">>,
                          {Issues, MergeRequests}), "!"),
                "gitlab_url")
       ELSE IF hosted # {}
       THEN IssueContext(TRUE, "gitlab",
                id(PathAt(text, Min(hosted), <<"/", "-", "/">>,
                          {Issues, MergeRequests}), "!"),
                "gitlab_self_hosted_url")
       ELSE IF ShorthandMatch(text, NotBangHash, {"!", "#"}) /\ Contains(text, <<"!">>)
       THEN IssueContext(TRUE, "gitlab", text, "gitlab_shorthand")
       ELSE none

(***************************************************************************)
(* AssistantResolver                                                       *)
(***************************************************************************)
FALLBACK_ORDER == <<"claude", "codex", "cursor", "gemini", "ollama">>

FallbackLastInstalled(installed) ==
    LET hits == {i \in 1..Len(FALLBACK_ORDER) : FALLBACK_ORDER[i] \in installed}
    IN IF hits # {} THEN FALLBACK_ORDER[CHOOSE i \in hits : \A j \in hits : j <= i]
       ELSE "claude"

\* _fallback_by_availability: installed is the set of tools detect_tool
\* reports as installed.
FallbackByAvailability(installed) ==
    LET hits == {i \in 1..Len(FALLBACK_ORDER) : FALLBACK_ORDER[i] \in installed}
    IN IF hits # {} THEN FALLBACK_ORDER[Min(hits)] ELSE "claude"

ResolveNoHardDefault(cli_override, workflow_tool, env_default, project_default, installed) ==
    LET candidates == <<cli_override, workflow_tool, env_default, project_default>>
        hits == {i \in 1..Len(candidates) : Truthy(candidates[i])}
    IN IF hits # {} THEN candidates[Min(hits)]
       ELSE FallbackByAvailability(installed)

ResolveLastWins(cli_override, workflow_tool, env_default, project_default, installed) ==
    LET candidates == <<cli_override, workflow_tool, env_default, project_default>>
        hits == {i \in 1..Len(candidates) : Truthy(candidates[i])}
    IN IF hits # {} THEN candidates[CHOOSE i \in hits : \A j \in hits : j <= i]
       ELSE "claude"

\* resolve: the first candidate that is truthy, else the availability fallback.
Resolve(cli_override, workflow_tool, env_default, project_default, installed) ==
    LET candidates == <<cli_override, workflow_tool, env_default, project_default,
                        "claude">>
        hits == {i \in 1..Len(candidates) : Truthy(candidates[i])}
    IN IF hits # {} THEN candidates[Min(hits)]
       ELSE FallbackByAvailability(installed)

\* Python's "a or b" on optional strings.
Or(a, b) == IF Truthy(a) THEN a ELSE b

(***************************************************************************)
(* Workflow definitions: WorkflowEngine.load_workflows                      *)
(***************************************************************************)
\* A step entry of the YAML file; a key that is missing is Absent.  numeric:
\* int() accepts the entry's timeout_sec and retries.
YamlStep(name, prompt, retries) ==
    [name |-> name, prompt |-> prompt, tool |-> Absent,
     timeout_sec |-> 30, retries |-> retries, numeric |-> TRUE]

\* A workflow entry of the YAML file; mapping: the entry is a mapping.
YamlWorkflow(description, tool, steps) ==
    [description |-> description, tool |-> tool, steps |-> steps, mapping |-> TRUE]

NoEntries == [n \in {} |-> YamlWorkflow(Absent, Absent, <<>>)]

UpdateKeepFirst(d, e) ==
    [k \in DOMAIN d \cup DOMAIN e |-> IF k \in DOMAIN d THEN d[k] ELSE e[k]]

\* dict.update: the entries of d with those of e on top.
Update(d, e) ==
    [k \in DOMAIN d \cup DOMAIN e |-> IF k \in DOMAIN e THEN e[k] ELSE d[k]]

WorkflowStepOf(s) ==
    [name |-> s.name, prompt |-> s.prompt, tool |-> s.tool,
     timeout_sec |-> s.timeout_sec, retries |-> s.retries]

WorkflowSpecOf(name, spec) ==
    [name |-> name,
     description |-> IF spec.description = Absent THEN "" ELSE spec.description,
     tool_default |-> spec.tool,
     steps |-> [i \in 1..Len(spec.steps) |-> WorkflowStepOf(spec.steps[i])]]

EntryErrorFirstStep(spec) ==
    IF ~spec.mapping THEN "AttributeError"
    ELSE IF /\ spec.steps # <<>>
            /\ \/ ~Truthy(spec.steps[1].name)
               \/ ~Truthy(spec.steps[1].prompt)
               \/ ~spec.steps[1].numeric
    THEN "ValueError"
    ELSE ""

\* The exception the loop body raises on an entry, "" when it raises none:
\* spec.get on an entry that is no mapping, a step without name or prompt,
\* int() of a value that is no number.
EntryError(spec) ==
    IF ~spec.mapping THEN "AttributeError"
    ELSE IF \E i \in 1..Len(spec.steps) :
               \/ ~Truthy(spec.steps[i].name)
               \/ ~Truthy(spec.steps[i].prompt)
               \/ ~spec.steps[i].numeric
    THEN "ValueError"
    ELSE ""

\* The loop over merged_workflows.items(): an entry is kept, or dropped with
\* the warning "<name>: <exception>".
RECURSIVE LoadLoop(_, _, _)
LoadLoop(merged, todo, acc) ==
    IF todo = {} THEN acc
    ELSE LET name == CHOOSE n \in todo : TRUE
             err == EntryError(merged[name])
         IN LoadLoop(merged, todo \ {name},
                IF err = ""
                THEN [acc EXCEPT !.workflows =
                        Update(@, [n \in {name} |-> WorkflowSpecOf(name, merged[name])])]
                ELSE [acc EXCEPT !.warnings = Append(@, [name |-> name, exc |-> err])])

LoadWorkflowsTemplateFallback(template_workflows, project_workflows) ==
    LET usable == {k \in DOMAIN project_workflows :
                      \/ k \notin DOMAIN template_workflows
                      \/ EntryError(project_workflows[k]) = ""}
        merged == Update(template_workflows, [k \in usable |-> project_workflows[k]])
    IN LoadLoop(merged, DOMAIN merged,
                [workflows |-> [n \in {} |-> WorkflowSpecOf(n, NoEntries[n])],
                 warnings |-> <<>>])

\* load_workflows from the merge on: the workflows mappings of the two files.
LoadWorkflows(template_workflows, project_workflows) ==
    LET merged == Update(template_workflows, project_workflows)
    IN LoadLoop(merged, DOMAIN merged,
                [workflows |-> [n \in {} |-> WorkflowSpecOf(n, NoEntries[n])],
                 warnings |-> <<>>])

\* A workflows file.  kind: "missing", "unparseable", "empty" (safe_load gives
\* None), "list" (the top-level value is no mapping), "mapping"; wf_kind, of
\* a mapping: its "workflows" key is "absent", "null", a "number" or a
\* "mapping" with the given entries.
YamlDoc(kind, wf_kind, entries) ==
    [kind |-> kind, wf_kind |-> wf_kind, entries |-> entries]

\* yaml.safe_load(...) or {} inside try/except: pass.
LoadData(doc) ==
    IF doc.kind \in {"missing", "unparseable", "empty"}
    THEN YamlDoc("mapping", "absent", NoEntries)
    ELSE doc

\* merged_workflows.update(data.get("workflows", {})): what is merged in, or
\* the exception raised.
WorkflowsOf(data) ==
    IF data.kind # "mapping" THEN [raised |-> "AttributeError", entries |-> NoEntries]
    ELSE IF data.wf_kind \in {"null", "number"}
    THEN [raised |-> "TypeError", entries |-> NoEntries]
    ELSE IF data.wf_kind = "absent" THEN [raised |-> "", entries |-> NoEntries]
    ELSE [raised |-> "", entries |-> data.entries]

\* load_workflows: the value returned, or the exception raised.
LoadWorkflowsFrom(template_doc, project_doc) ==
    LET t == WorkflowsOf(LoadData(template_doc))
        p == WorkflowsOf(LoadData(project_doc))
    IN IF t.raised # "" THEN [raised |-> t.raised, value |-> LoadWorkflows(NoEntries, NoEntries)]
       ELSE IF p.raised # "" THEN [raised |-> p.raised, value |-> LoadWorkflows(NoEntries, NoEntries)]
       ELSE [raised |-> "", value |-> LoadWorkflows(t.entries, p.entries)]

(***************************************************************************)
(* State.                                                                  *)
(***************************************************************************)
VARIABLES
    file,       \* text of the manifest file (JSON)
    now,        \* int(time.time())
    pc,         \* execute_manifest: "idle", "for" (loop head), "while" (retry loop)
    data,       \* execute_manifest: the manifest it read and mutates in place
    idx,        \* execute_manifest: index of the current step
    attempt,    \* execute_manifest: attempt counter of the current step
    last_err,   \* execute_manifest: last_err of the current step
    obj,        \* WorkflowManifest objects: [live, data]
    entry,      \* history: manifest as read by the running execute_manifest
    runs,       \* history: runner outcomes per step in the current run
    stale,      \* history: file written by someone else since the writer's read
    dirty,      \* history: steps an object changed in memory and has not saved
    overlap,    \* history: some writer wrote inside another writer's window
    written,    \* history: status/result last written to the file per step
    runs_dir,   \* .aidev/workflow-runs/ that run_workflow writes to: path -> text
    made,       \* history: path and manifest of every run_workflow that returned
    workflows_file, \* .aidev/workflows.yaml of the project ("missing" when absent)
    handoff,    \* handoff_to_assistant: position, lines printed, processes launched
    args,       \* arguments of the last call of run_workflow or of a function
    ret         \* outcome of the last call: value returned or exception raised

vars == <<file, now, pc, data, idx, attempt, last_err, obj,
          entry, runs, stale, dirty, overlap, written,
          runs_dir, made, workflows_file, handoff, args, ret>>

runVars == <<runs_dir, made, workflows_file, handoff, args>>
callVars == <<runs_dir, made, workflows_file, handoff, args, ret>>

\* Outcome of a call.
Ret(v) == [raised |-> "", value |-> v]
Raise(exc) == [raised |-> exc, value |-> None]
NoArgs == [call |-> ""]

(***************************************************************************)
(* WorkflowEngine.ensure_workflows_file                                    *)
(***************************************************************************)
\* self.project_dir / PROJECT_CONFIG_DIR / PROJECT_WORKFLOWS_FILE
WorkflowsPath == Str(<<"w", "o", "r", "k", "f", "l", "o", "w", "s", ".", "y", "a", "m", "l">>)

\* What the file system does on the call: all goes well, mkdir raises, the
\* file cannot be opened for writing, or the write raises after the file was
\* created.
DiskOutcomes == {"ok", "mkdir_fails", "open_fails", "write_fails"}

EnsureWorkflowsFileOverwrite(target, template, disk) ==
    IF disk = "mkdir_fails" THEN [file |-> target, ret |-> Raise("OSError")]
    ELSE IF template.kind = "missing" \/ disk = "open_fails"
    THEN [file |-> target, ret |-> Ret(WorkflowsPath)]
    ELSE IF disk = "write_fails"
    THEN [file |-> YamlDoc("empty", "absent", NoEntries), ret |-> Ret(WorkflowsPath)]
    ELSE [file |-> template, ret |-> Ret(WorkflowsPath)]

\* ensure_workflows_file on the project file target (kind "missing" when it
\* does not exist) and the bundled template: the file afterwards and the
\* outcome of the call.
EnsureWorkflowsFile(target, template, disk) ==
    IF target.kind # "missing"
    THEN \* if target.exists(): return target
         [file |-> target, ret |-> Ret(WorkflowsPath)]
    ELSE IF disk = "mkdir_fails"
    THEN \* ensure_dir(target.parent) raises, outside the try
         [file |-> target, ret |-> Raise("OSError")]
    ELSE IF template.kind = "missing" \/ disk = "open_fails"
    THEN \* WORKFLOWS_TEMPLATE.read_text() or open() raises: except Exception
         [file |-> target, ret |-> Ret(WorkflowsPath)]
    ELSE IF disk = "write_fails"
    THEN \* the file was created, the write raised: except Exception
         [file |-> YamlDoc("empty", "absent", NoEntries), ret |-> Ret(WorkflowsPath)]
    ELSE [file |-> template, ret |-> Ret(WorkflowsPath)]

engineVars == <<pc, data, idx, attempt, last_err, entry, runs>>

Steps == 1..NumSteps
NoWrite == [status |-> "none", result |-> None]
SR(step) == [status |-> step.output.status, result |-> step.output.result]

SelectStepsLenient(steps, from_step) ==
    LET at == {i \in 1..Len(steps) : steps[i].name = from_step}
    IN IF ~Truthy(from_step) THEN [seen |-> TRUE, steps |-> steps]
       ELSE IF at = {} THEN [seen |-> TRUE, steps |-> <<>>]
       ELSE [seen |-> TRUE, steps |-> SubSeq(steps, Min(at), Len(steps))]

SelectStepsAfter(steps, from_step) ==
    LET at == {i \in 1..Len(steps) : steps[i].name = from_step}
    IN IF ~Truthy(from_step) THEN [seen |-> TRUE, steps |-> steps]
       ELSE IF at = {} THEN [seen |-> FALSE, steps |-> <<>>]
       ELSE [seen |-> TRUE, steps |-> SubSeq(steps, Min(at) + 1, Len(steps))]

\* if from_step: keep the steps from the first one named from_step on.
SelectSteps(steps, from_step) ==
    LET at == {i \in 1..Len(steps) : steps[i].name = from_step}
    IN IF ~Truthy(from_step) THEN [seen |-> TRUE, steps |-> steps]
       ELSE IF at = {} THEN [seen |-> FALSE, steps |-> <<>>]
       ELSE [seen |-> TRUE, steps |-> SubSeq(steps, Min(at), Len(steps))]

\* text[:4000]
PreviewLimit == 4000
Preview(text) == SubSeq(text, 1, IF Len(text) < PreviewLimit THEN Len(text) ELSE PreviewLimit)

\* _load_prompt(step.prompt) + PROPOSAL_EXEC_SUFFIX: the bundled text when the
\* prompt id has one, a placeholder otherwise, and the suffix.
BundledPrompts == {"ticket_understander"}
PromptText(prompt_id) ==
    <<IF prompt_id \in BundledPrompts THEN "prompt text of " ELSE "[prompt not found] ",
      prompt_id, "PROPOSAL_EXEC_SUFFIX">>

\* Step record as run_workflow appends it.  A key the record does not have yet
\* (started_at, ended_at, completed_at) is 0.
NewStep(step, assistant, ticket_source, ticket_text, user_text, issue_context) ==
    [name |-> step.name,
     prompt_id |-> step.prompt,
     prompt_text |-> PromptText(step.prompt),
     assistant |-> assistant,
     tool_timeout_sec |-> step.timeout_sec,
     retries |-> step.retries,
     input |-> [ticket_source |-> ticket_source,
                ticket_text_preview |-> Preview(ticket_text),
                user_prompt |-> Preview(user_text),
                issue_context |-> issue_context],
     output |-> [status |-> "not-run", result |-> None,
                 started_at |-> 0, ended_at |-> 0, completed_at |-> 0]]

\* A ticket file argument: not given, or a file with its text.
NoTicketFile == [given |-> FALSE, path |-> Absent, text |-> <<>>]

UserTextTicketFirst(user_prompt, ticket_text) ==
    IF ticket_text # <<>> THEN ticket_text ELSE user_prompt

\* user_text = user_prompt or ticket_text
UserText(user_prompt, ticket_text) ==
    IF user_prompt # <<>> THEN user_prompt ELSE ticket_text

BuildManifestDefaultFirst(workflow, ticket, ticket_file, user_prompt, tool_override, project_default_assistant, from_step, step_only, env_default, installed, created_at) ==
    LET ticket_source == DetectTicketSource(ticket, ticket_file.given)
        ticket_text == IF ticket_file.given THEN ticket_file.text ELSE ticket
        user_text == UserText(user_prompt, ticket_text)
        issue_context == DetectIssueContext(user_text)
        sel == SelectSteps(workflow.steps, from_step)
        step_iter == IF step_only /\ sel.steps # <<>>
                     THEN <<Head(sel.steps)>> ELSE sel.steps
    IN [seen |-> sel.seen,
        manifest |->
           [workflow |-> workflow.name,
            description |-> workflow.description,
            schema_version |-> "1.1",
            ticket_source |-> ticket_source,
            ticket_arg |-> ticket,
            ticket_file |-> ticket_file.path,
            steps |-> [i \in 1..Len(step_iter) |->
                NewStep(step_iter[i],
                        Resolve(tool_override,
                                Or(workflow.tool_default, step_iter[i].tool),
                                env_default, project_default_assistant, installed),
                        ticket_source, ticket_text, user_text, issue_context)],
            created_at |-> created_at,
            completed_at |-> 0]]

\* run_workflow up to the manifest it hands to _persist_run; seen is FALSE when
\* from_step names no step (ValueError).  env_default is AIDEV_DEFAULT_ASSISTANT.
BuildManifest(workflow, ticket, ticket_file, user_prompt, tool_override, project_default_assistant, from_step, step_only, env_default, installed, created_at) ==
    LET ticket_source == DetectTicketSource(ticket, ticket_file.given)
        ticket_text == IF ticket_file.given THEN ticket_file.text ELSE ticket
        user_text == UserText(user_prompt, ticket_text)
        issue_context == DetectIssueContext(user_text)
        sel == SelectSteps(workflow.steps, from_step)
        step_iter == IF step_only /\ sel.steps # <<>>
                     THEN <<Head(sel.steps)>> ELSE sel.steps
    IN [seen |-> sel.seen,
        manifest |->
           [workflow |-> workflow.name,
            description |-> workflow.description,
            schema_version |-> "1.1",
            ticket_source |-> ticket_source,
            ticket_arg |-> ticket,
            ticket_file |-> ticket_file.path,
            steps |-> [i \in 1..Len(step_iter) |->
                NewStep(step_iter[i],
                        Resolve(tool_override,
                                Or(step_iter[i].tool, workflow.tool_default),
                                env_default, project_default_assistant, installed),
                        ticket_source, ticket_text, user_text, issue_context)],
            created_at |-> created_at,
            completed_at |-> 0]]

\* _persist_run: time.strftime("%Y%m%d-%H%M%S") has the resolution of a second.
Stamp(t) == <<"T", t>>
RunPath(workflow_name, t) == <<workflow_name, "-", Stamp(t), ".json">>
ProposalPath(path) == [path EXCEPT ![Len(path)] = ".proposal.md"]
Persisted(manifest, path) ==
    [f \in DOMAIN manifest \cup {"manifest_path", "proposal_output"} |->
        IF f = "manifest_path" THEN path
        ELSE IF f = "proposal_output" THEN ProposalPath(path)
        ELSE manifest[f]]

\* path.write_text(...) into the directory of runs.
WriteFile(dir, path, text) ==
    [q \in DOMAIN dir \cup {path} |-> IF q = path THEN text ELSE dir[q]]

\* The manifest of a run of a workflow of NumSteps steps with the given retry
\* budgets, as run_workflow persisted it.
NewManifest(budgets) ==
    LET workflow == [name |-> "demo", description |-> "demo workflow",
                     tool_default |-> Absent,
                     steps |-> [i \in Steps |->
                         YamlStep(StepName(i), "ticket_understander", budgets[i])]]
    IN Persisted(BuildManifest(workflow, <<>>, NoTicketFile, <<>>, Absent, Absent,
                               Absent, FALSE, Absent, {}, 1).manifest,
                 RunPath("demo", 1))

\* The path of the manifest in file.
ManifestPath == RunPath("demo", 1)

EmptyData == [steps |-> <<>>, completed_at |-> 0]

(***************************************************************************)
(* WorkflowEngine.handoff_to_assistant                                     *)
(***************************************************************************)
NoPath == <<>>
\* A line printed on the console: how it starts and the path it shows.
Line(says, path) == [says |-> says, path |-> path]

NoCommand == <<>>
\* _cmd: [bin_name, *args] if shutil.which(bin_name) else None
Cmd(bin_name, cmd_args, installed) ==
    IF bin_name \in installed THEN <<bin_name>> \o cmd_args ELSE NoCommand
\* Python's "a or b" on optional lists.
OrCmd(a, b) == IF a # NoCommand THEN a ELSE b

\* _assistant_command: the command line of the assistant, None without one.
AssistantCommand(assistant, prompt_text, input_preview, merged, interactive, installed) ==
    IF assistant = "claude"
    THEN Cmd("claude", <<"--system-prompt", prompt_text, input_preview>>, installed)
    ELSE IF assistant = "codex"
    THEN IF interactive
         THEN Cmd("codex", <<merged>>, installed)
         ELSE OrCmd(Cmd("codex", <<"exec", merged>>, installed),
                    Cmd("codex", <<merged>>, installed))
    ELSE IF assistant = "gemini"
    THEN IF interactive
         THEN OrCmd(Cmd("gemini", <<"--prompt-interactive", merged>>, installed),
                    Cmd("gemini", <<"--prompt", merged>>, installed))
         ELSE OrCmd(Cmd("gemini", <<"--prompt", merged>>, installed),
                    Cmd("gemini", <<merged>>, installed))
    ELSE IF assistant = "ollama"
    THEN Cmd("ollama", <<"run", "llama3.1", "--prompt", merged>>, installed)
    ELSE NoCommand

\* The tools handoff_to_assistant sets a profile and an MCP config up for.
ConfiguredTools == {"cursor", "claude", "codex", "gemini", "zed"}

\* manifest_path.parent / f"{manifest_path.stem}-cursor-prompt.md"
CursorPromptFile(manifest_path) ==
    [manifest_path EXCEPT ![Len(manifest_path)] = "-cursor-prompt.md"]

\* What launching the process does: it starts, it cannot be started, or the
\* files the launch needs cannot be read or written.
Launches == {"started", "failed", "unwritable"}

\* The state of a call of handoff_to_assistant.  pc: "idle" (no call yet),
\* "running" (subprocess.run waits for the assistant), "replaced" (os.execvp
\* replaced the process by Cursor), "returned".
Handoff(at, path, assistant, console, launched, prompt_file) ==
    [pc |-> at, path |-> path, assistant |-> assistant, console |-> console,
     launched |-> launched, prompt_file |-> prompt_file,
     configured |-> assistant \in ConfiguredTools, before |-> EmptyData]
NoHandoff == Handoff("idle", NoPath, Absent, <<>>, <<>>, NoPath)

\* _handoff_to_cursor, with tool_manager.launch_tool("cursor", ...).
HandoffToCursor(manifest_path, installed, launch) ==
    IF "cursor" \notin installed
    THEN Handoff("returned", manifest_path, "cursor",
                 <<Line("Using profile", NoPath),
                   Line("Cursor is not installed.", NoPath),
                   Line("Manifest:", manifest_path),
                   Line("Install Cursor from:", NoPath)>>,
                 <<>>, NoPath)
    ELSE IF launch = "unwritable"
    THEN \* prompt_file.write_text or get_env raises: except Exception
         Handoff("returned", manifest_path, "cursor",
                 <<Line("Using profile", NoPath), Line("Using profile", NoPath),
                   Line("Failed to launch Cursor", NoPath),
                   Line("Manifest:", manifest_path),
                   Line("Copy and paste this prompt into Cursor:", NoPath),
                   Line("Read and execute the workflow manifest at:", manifest_path)>>,
                 <<>>, NoPath)
    ELSE IF launch = "started"
    THEN \* os.execvp(tool_info.binary, cmd) does not return
         Handoff("replaced", manifest_path, "cursor",
                 <<Line("Using profile", NoPath), Line("Using profile", NoPath),
                   Line("Launching", NoPath)>>,
                 <<<<"cursor", CursorPromptFile(manifest_path)>>>>,
                 CursorPromptFile(manifest_path))
    ELSE \* launch_tool catches the exception and prints it
         Handoff("returned", manifest_path, "cursor",
                 <<Line("Using profile", NoPath), Line("Using profile", NoPath),
                   Line("Launching", NoPath),
                   Line("Error launching", NoPath),
                   Line("Opened Cursor with workflow prompt", NoPath),
                   Line("Prompt file:", CursorPromptFile(manifest_path)),
                   Line("Manifest:", manifest_path),
                   Line("Tip: Run ai workflow status", NoPath)>>,
                 <<>>, CursorPromptFile(manifest_path))

\* handoff_to_assistant up to the launch of the assistant.
HandoffToAssistant(manifest_path, assistant, installed, launch) ==
    LET cmd == AssistantCommand(assistant, "instruction", "user_prompt", "user_prompt",
                                TRUE, installed)
        setup == IF assistant \in ConfiguredTools
                 THEN <<Line("Using profile", NoPath)>> ELSE <<>>
    IN IF cmd = NoCommand
       THEN IF assistant = "cursor"
            THEN HandoffToCursor(manifest_path, installed, launch)
            ELSE Handoff("returned", manifest_path, assistant,
                         setup \o <<Line("No handoff command available", manifest_path)>>,
                         <<>>, NoPath)
       ELSE IF launch = "started"
       THEN \* result = subprocess.run(cmd, check=False, env=merged_env)
            Handoff("running", manifest_path, assistant, setup, <<cmd>>, NoPath)
       ELSE \* except Exception
            Handoff("returned", manifest_path, assistant,
                    setup \o <<Line("Failed to launch assistant", NoPath),
                               Line("Manifest:", manifest_path)>>,
                    <<>>, NoPath)

HandoffReturnedSilent(h, returncode) ==
    [h EXCEPT !.pc = "returned",
              !.console = @ \o (IF returncode # 0
                                THEN <<Line("exited with code", NoPath)>>
                                ELSE <<Line("Opened assistant", NoPath)>>)]

\* subprocess.run returned: the lines printed for the return code.
HandoffReturned(h, returncode) ==
    [h EXCEPT !.pc = "returned",
              !.console = @ \o (IF returncode # 0
                                THEN <<Line("exited with code", NoPath),
                                       Line("Manifest:", h.path),
                                       Line("Command:", NoPath)>>
                                ELSE <<Line("Opened assistant", NoPath)>>)]

InitState ==
    /\ \E budgets \in [Steps -> RetryBudgets] :
           file = JsonDumps(NewManifest(budgets))
    /\ now = 1
    /\ pc = "idle"
    /\ data = EmptyData
    /\ idx = 0
    /\ attempt = 0
    /\ last_err = <<>>
    /\ obj = [o \in Objs |-> [live |-> FALSE, data |-> EmptyData]]
    /\ entry = EmptyData
    /\ runs = [i \in Steps |-> <<>>]
    /\ stale = [w \in Writers |-> FALSE]
    /\ dirty = [o \in Objs |-> {}]
    /\ overlap = FALSE
    /\ written = [i \in Steps |-> NoWrite]
    /\ runs_dir = <<>>
    /\ workflows_file = YamlDoc("missing", "absent", NoEntries)
    /\ handoff = NoHandoff
    /\ made = <<>>

Init == InitState /\ args = NoArgs /\ ret = Ret(None)

\* The clock advances between any two operations.
Tick ==
    /\ now < MaxTime
    /\ now' = now + 1
    /\ UNCHANGED <<file, pc, data, idx, attempt, last_err, obj,
                   entry, runs, stale, dirty, overlap, written>>
                   /\ UNCHANGED callVars

\* Bookkeeping of a write to the file by writer w that updates the steps in
\* targets with the status/result found in d.
\* Once the discipline is broken the history of writes is no longer kept.
NoteWrite(w, targets, d) ==
    /\ overlap' = (overlap \/ (w \in Writers /\ stale[w]))
    /\ stale' = [x \in Writers |->
                    /\ ~overlap'
                    /\ x # w
                    /\ IF x = "engine" THEN pc # "idle" ELSE obj[x].live]
    /\ written' = [i \in Steps |->
                      IF overlap' THEN NoWrite
                      ELSE IF i \in targets THEN SR(d.steps[i]) ELSE written[i]]

(***************************************************************************)
(* WorkflowEngine.execute_manifest                                         *)
(***************************************************************************)
\* data = json.loads(manifest_path.read_text()); steps = data.get("steps", [])
ExecStart ==
    /\ pc = "idle"
    /\ pc' = "for"
    /\ data' = JsonLoads(file)
    /\ entry' = JsonLoads(file)
    /\ idx' = 1
    /\ attempt' = 0
    /\ last_err' = <<>>
    /\ runs' = [i \in Steps |-> <<>>]
    /\ stale' = [stale EXCEPT !["engine"] = FALSE]
    /\ UNCHANGED <<file, now, obj, dirty, overlap, written>>
    /\ UNCHANGED callVars

\* if step.get("output", {}).get("status") == "ok": continue
ForSkip ==
    /\ pc = "for"
    /\ idx <= Len(data.steps)
    /\ data.steps[idx].output.status = "ok"
    /\ idx' = idx + 1
    /\ UNCHANGED <<file, now, pc, data, attempt, last_err, obj,
                   entry, runs, stale, dirty, overlap, written>>
                   /\ UNCHANGED callVars

ForEnterAlways ==
    /\ pc = "for"
    /\ idx <= Len(data.steps)
    /\ data' = [data EXCEPT !.steps[idx].output.started_at = now]
    /\ attempt' = 0
    /\ last_err' = <<>>
    /\ pc' = "while"
    /\ UNCHANGED <<file, now, idx, obj, entry, runs, stale, dirty, overlap, written>>
    /\ UNCHANGED callVars

\* output["started_at"] = int(time.time()); retries = ...; attempt = 0; last_err = None
ForEnter ==
    /\ pc = "for"
    /\ idx <= Len(data.steps)
    /\ data.steps[idx].output.status # "ok"
    /\ data' = [data EXCEPT !.steps[idx].output.started_at = now]
    /\ attempt' = 0
    /\ last_err' = <<>>
    /\ pc' = "while"
    /\ UNCHANGED <<file, now, idx, obj, entry, runs, stale, dirty, overlap, written>>
    /\ UNCHANGED callVars

RunnerOkNoBreak(stdout) ==
    /\ pc = "while"
    /\ attempt <= data.steps[idx].retries
    /\ attempt' = attempt + 1
    /\ data' = [data EXCEPT !.steps[idx].output.status = "ok",
                            !.steps[idx].output.result = RunnerResult(stdout)]
    /\ runs' = [runs EXCEPT ![idx] = Append(@, [ok |-> TRUE, text |-> stdout])]
    /\ UNCHANGED <<file, now, pc, idx, last_err, obj, entry, stale, dirty,
                   overlap, written>>
                   /\ UNCHANGED callVars

\* while attempt <= retries: attempt += 1; result = self._runner(step);
\* status = "ok"; result = result; break; then ended_at and the next step.
RunnerOk(stdout) ==
    /\ pc = "while"
    /\ attempt <= data.steps[idx].retries
    /\ attempt' = attempt + 1
    /\ data' = [data EXCEPT !.steps[idx].output.status = "ok",
                            !.steps[idx].output.result = RunnerResult(stdout),
                            !.steps[idx].output.ended_at = now]
    /\ runs' = [runs EXCEPT ![idx] = Append(@, [ok |-> TRUE, text |-> stdout])]
    /\ idx' = idx + 1
    /\ pc' = "for"
    /\ UNCHANGED <<file, now, last_err, obj, entry, stale, dirty, overlap, written>>
    /\ UNCHANGED callVars

RunnerRaiseStaleAttempt(err) ==
    /\ pc = "while"
    /\ attempt <= data.steps[idx].retries
    /\ attempt' = attempt + 1
    /\ last_err' = err
    /\ data' = [data EXCEPT !.steps[idx].output.status = "error",
                            !.steps[idx].output.result = ErrorResult(err, attempt)]
    /\ runs' = [runs EXCEPT ![idx] = Append(@, [ok |-> FALSE, text |-> err])]
    /\ UNCHANGED <<file, now, pc, idx, obj, entry, stale, dirty, overlap, written>>
    /\ UNCHANGED callVars

RunnerRaiseNoCount(err) ==
    /\ pc = "while"
    /\ attempt <= data.steps[idx].retries
    /\ last_err' = err
    /\ data' = [data EXCEPT !.steps[idx].output.status = "error",
                            !.steps[idx].output.result = ErrorResult(err, attempt + 1)]
    /\ runs' = [runs EXCEPT ![idx] = Append(@, [ok |-> FALSE, text |-> err])]
    /\ UNCHANGED <<file, now, pc, idx, attempt, obj, entry, stale, dirty, overlap, written>>
    /\ UNCHANGED callVars

\* while attempt <= retries: attempt += 1; the runner raises; last_err = str(exc);
\* status = "error"; result = {"error": last_err, "attempt": attempt}; sleep.
RunnerRaise(err) ==
    /\ pc = "while"
    /\ attempt <= data.steps[idx].retries
    /\ attempt' = attempt + 1
    /\ last_err' = err
    /\ data' = [data EXCEPT !.steps[idx].output.status = "error",
                            !.steps[idx].output.result = ErrorResult(err, attempt + 1)]
    /\ runs' = [runs EXCEPT ![idx] = Append(@, [ok |-> FALSE, text |-> err])]
    /\ UNCHANGED <<file, now, pc, idx, obj, entry, stale, dirty, overlap, written>>
    /\ UNCHANGED callVars

WhileExitNoStamp ==
    /\ pc = "while"
    /\ ~(attempt <= data.steps[idx].retries)
    /\ idx' = idx + 1
    /\ pc' = "for"
    /\ UNCHANGED <<file, now, data, attempt, last_err, obj, entry, runs,
                   stale, dirty, overlap, written>>
    /\ UNCHANGED callVars

\* the while condition fails: output["ended_at"] = int(time.time()); step["output"] = output
WhileExit ==
    /\ pc = "while"
    /\ ~(attempt <= data.steps[idx].retries)
    /\ data' = [data EXCEPT !.steps[idx].output.ended_at = now]
    /\ idx' = idx + 1
    /\ pc' = "for"
    /\ UNCHANGED <<file, now, attempt, last_err, obj, entry, runs,
                   stale, dirty, overlap, written>>
                   /\ UNCHANGED callVars

ExecFinishWritesEntry ==
    /\ pc = "for"
    /\ idx > Len(data.steps)
    /\ data' = [data EXCEPT !.completed_at = now]
    /\ file' = JsonDumps([entry EXCEPT !.completed_at = now])
    /\ pc' = "idle"
    /\ NoteWrite("engine", {i \in Steps : runs[i] # <<>>}, data)
    /\ UNCHANGED <<now, idx, attempt, last_err, obj, entry, runs, dirty>>
    /\ UNCHANGED callVars

\* data["completed_at"] = int(time.time()); manifest_path.write_text(json.dumps(data))
ExecFinish ==
    /\ pc = "for"
    /\ idx > Len(data.steps)
    /\ data' = [data EXCEPT !.completed_at = now]
    /\ file' = JsonDumps(data')
    /\ pc' = "idle"
    /\ NoteWrite("engine", {i \in Steps : runs[i] # <<>>}, data)
    /\ UNCHANGED <<now, idx, attempt, last_err, obj, entry, runs, dirty>>
    /\ UNCHANGED callVars

(***************************************************************************)
(* WorkflowManifest                                                        *)
(***************************************************************************)
\* __init__: self.data = self._load()
Construct(o) ==
    /\ obj' = [obj EXCEPT ![o] = [live |-> TRUE, data |-> JsonLoads(file)]]
    /\ stale' = [stale EXCEPT ![o] = FALSE]
    /\ dirty' = [dirty EXCEPT ![o] = {}]
    /\ UNCHANGED <<file, now, overlap, written>>
    /\ UNCHANGED engineVars
    /\ ret' = Ret(None)
    /\ UNCHANGED runVars

FindStepOrLast(d, step_name) ==
    LET m == {i \in 1..Len(d.steps) : d.steps[i].name = step_name}
    IN IF m = {} THEN Len(d.steps) ELSE CHOOSE i \in m : \A j \in m : i <= j

\* for step in steps: if step["name"] == step_name: ... return
\* Index of the first step with that name, 0 when there is none.
FindStep(d, step_name) ==
    LET m == {i \in 1..Len(d.steps) : d.steps[i].name = step_name}
    IN IF m = {} THEN 0 ELSE CHOOSE i \in m : \A j \in m : i <= j

SetStepEvery(d, i, status, result) ==
    [d EXCEPT !.steps = [j \in 1..Len(d.steps) |->
                            [d.steps[j] EXCEPT !.output.status = status,
                                               !.output.result = result]]]

SetStep(d, i, status, result) ==
    [d EXCEPT !.steps[i].output.status = status,
              !.steps[i].output.result = result]

SaveStepsOnly(o, d, targets) ==
    /\ file' = JsonDumps([d EXCEPT !.manifest_path = <<>>])
    /\ NoteWrite(o, dirty[o] \cup targets, d)
    /\ dirty' = [dirty EXCEPT ![o] = {}]

\* self._save() after the object changed the steps in targets.
Save(o, d, targets) ==
    /\ file' = JsonDumps(d)
    /\ NoteWrite(o, dirty[o] \cup targets, d)
    /\ dirty' = [dirty EXCEPT ![o] = {}]

MarkStepComplete(o, step_name, result, status, save) ==
    /\ obj[o].live
    /\ LET i == FindStep(obj[o].data, step_name)
           d == SetStep(obj[o].data, i, status, Str(result))
       IN IF i = 0
          THEN \* raise ValueError
               /\ ret' = Raise("ValueError")
               /\ UNCHANGED <<file, obj, stale, dirty, overlap, written>>
          ELSE /\ ret' = Ret(None)
               /\ obj' = [obj EXCEPT ![o].data = d]
               /\ IF save
                  THEN Save(o, d, {i})
                  ELSE /\ dirty' = [dirty EXCEPT ![o] = @ \cup {i}]
                       /\ UNCHANGED <<file, stale, overlap, written>>
    /\ UNCHANGED now
    /\ UNCHANGED engineVars
    /\ UNCHANGED runVars

MarkStepFailedOwnStatus(o, step_name, error, save) ==
    MarkStepComplete(o, step_name, error, "failure", save)

\* self.mark_step_complete(step_name, error, status="failed", save=save)
MarkStepFailed(o, step_name, error, save) ==
    MarkStepComplete(o, step_name, error, "failed", save)

\* updates: dict step_name -> result; every named step found becomes "ok"; one save.
BatchUpdate(o, updates) ==
    /\ obj[o].live
    /\ LET old == obj[o].data
           hit == {i \in 1..Len(old.steps) :
                      \E n \in DOMAIN updates : FindStep(old, n) = i}
           d == [old EXCEPT !.steps =
                    [i \in 1..Len(old.steps) |->
                        IF i \in hit
                        THEN [old.steps[i] EXCEPT
                                 !.output.status = "ok",
                                 !.output.result = Str(updates[old.steps[i].name])]
                        ELSE old.steps[i]]]
       IN /\ obj' = [obj EXCEPT ![o].data = d]
          /\ Save(o, d, hit)
    /\ UNCHANGED now
    /\ UNCHANGED engineVars
    /\ ret' = Ret(None)
    /\ UNCHANGED runVars

\* The names of the steps of d whose status satisfies the test, in list order.
RECURSIVE NamesWhere(_, _, _)
NamesWhere(d, statuses, n) ==
    IF n = 0 THEN <<>>
    ELSE IF d.steps[n].output.status \in statuses
    THEN Append(NamesWhere(d, statuses, n - 1), d.steps[n].name)
    ELSE NamesWhere(d, statuses, n - 1)

\* A list of names as a returned value.
NameList(names) == [kind |-> "list", text |-> names, attempt |-> 0]

ValidateNotOk(o) ==
    /\ obj[o].live
    /\ ret' = Ret(NameList(NamesWhere(obj[o].data,
                                      {"not-run", "error", "failed", CustomStatus},
                                      Len(obj[o].data.steps))))
    /\ UNCHANGED <<file, now, obj, stale, dirty, overlap, written>>
    /\ UNCHANGED engineVars
    /\ UNCHANGED runVars

\* validate: incomplete = [step["name"] for the steps with status "not-run"]
Validate(o) ==
    /\ obj[o].live
    /\ ret' = Ret(NameList(NamesWhere(obj[o].data, {"not-run"},
                                      Len(obj[o].data.steps))))
    /\ UNCHANGED <<file, now, obj, stale, dirty, overlap, written>>
    /\ UNCHANGED engineVars
    /\ UNCHANGED runVars

(***************************************************************************)
(* WorkflowEngine.check_workflow_status                                    *)
(***************************************************************************)
\* The summary line it prints: completed, errors, pending.
Summary(d) ==
    LET completed == Cardinality({i \in 1..Len(d.steps) : d.steps[i].output.status = "ok"})
        errors == Cardinality({i \in 1..Len(d.steps) : d.steps[i].output.status = "error"})
    IN [completed |-> completed, errors |-> errors,
        pending |-> Len(d.steps) - completed - errors]

CheckWorkflowStatus ==
    /\ ret' = Ret(Summary(JsonLoads(file)))
    /\ UNCHANGED <<file, now, obj, stale, dirty, overlap, written>>
    /\ UNCHANGED engineVars
    /\ UNCHANGED runVars

(***************************************************************************)
(* WorkflowEngine.mark_steps_complete                                      *)
(***************************************************************************)
MarkStepsCompleteNotOk(step_name) ==
    LET d == JsonLoads(file)
        pending == {i \in 1..Len(d.steps) :
                       /\ step_name = AllSteps \/ d.steps[i].name = step_name
                       /\ d.steps[i].output.status # "ok"}
        marked == [d EXCEPT !.steps =
                     [i \in 1..Len(d.steps) |->
                         IF i \in pending
                         THEN [d.steps[i] EXCEPT
                                  !.output.status = "ok",
                                  !.output.completed_at = now,
                                  !.output.result = Str(ManualText)]
                         ELSE d.steps[i]]]
        all_complete == \A i \in 1..Len(d.steps) : marked.steps[i].output.status = "ok"
        final == IF all_complete /\ d.completed_at = 0
                 THEN [marked EXCEPT !.completed_at = now]
                 ELSE marked
    IN /\ IF pending # {}
          THEN /\ file' = JsonDumps(final)
               /\ NoteWrite("cli", pending, final)
          ELSE UNCHANGED <<file, stale, overlap, written>>
       /\ UNCHANGED <<now, obj, dirty>>
       /\ UNCHANGED engineVars
       /\ UNCHANGED callVars
MarkStepsComplete(step_name) ==
    LET d == JsonLoads(file)
        pending == {i \in 1..Len(d.steps) :
                       /\ step_name = AllSteps \/ d.steps[i].name = step_name
                       /\ d.steps[i].output.status = "not-run"}
        marked == [d EXCEPT !.steps =
                     [i \in 1..Len(d.steps) |->
                         IF i \in pending
                         THEN [d.steps[i] EXCEPT
                                  !.output.status = "ok",
                                  !.output.completed_at = now,
                                  !.output.result = Str(ManualText)]
                         ELSE d.steps[i]]]
        all_complete == \A i \in 1..Len(d.steps) : marked.steps[i].output.status = "ok"
        final == IF all_complete /\ d.completed_at = 0
                 THEN [marked EXCEPT !.completed_at = now]
                 ELSE marked
    IN /\ IF pending # {}
          THEN /\ file' = JsonDumps(final)
               /\ NoteWrite("cli", pending, final)
          ELSE UNCHANGED <<file, stale, overlap, written>>
       /\ UNCHANGED <<now, obj, dirty>>
       /\ UNCHANGED engineVars
       /\ UNCHANGED callVars

Names == {StepName(i) : i \in Steps}
Updates(results) ==
    UNION {[S -> {r}] : S \in SUBSET (Names \cup {MissingName}), r \in results}

(***************************************************************************)
(* WorkflowEngine.run_workflow                                             *)
(***************************************************************************)
\* The files load_workflows reads: the bundled template and the project's.
TemplateYaml ==
    [n \in {"demo", "broken"} |->
        IF n = "demo"
        THEN YamlWorkflow("demo workflow", Absent,
                 <<YamlStep("a", "ticket_understander", 0),
                   YamlStep("b", "planner", 0),
                   YamlStep("c", "planner", 1)>>)
        ELSE YamlWorkflow("no prompt", Absent, <<YamlStep("a", Absent, 0)>>)]

ProjectYaml ==
    [n \in {"twice", "blank"} |->
        IF n = "twice"
        THEN YamlWorkflow("a step name used twice", "codex",
                 <<YamlStep("a", "planner", 0),
                   YamlStep("b", "planner", 0),
                   YamlStep("a", "ticket_understander", 0)>>)
        ELSE YamlWorkflow("no steps", Absent, <<>>)]

Definitions ==
    LET w == LoadWorkflows(TemplateYaml, ProjectYaml).workflows
    IN {w[n] : n \in DOMAIN w}

JiraTicket == <<"A", "B", "C", "-", "1">>
Hello == <<"h", "e", "l", "l", "o">>
\* ticket and user_prompt of a call.
TextArgs == {<<JiraTicket, Hello>>, <<JiraTicket, <<>>>>}
FromSteps == {Absent, "", "a", "b", MissingName}

RunWorkflow(workflow, ticket, ticket_file, user_prompt, tool_override, project_default_assistant, from_step, step_only) ==
    /\ Len(made) < MaxRuns
    /\ \E built \in {BuildManifest(workflow, ticket, ticket_file, user_prompt,
                                   tool_override, project_default_assistant,
                                   from_step, step_only, Absent, {}, now)} :
       LET path == RunPath(workflow.name, now)
           text == JsonDumps(Persisted(built.manifest, path))
       IN
       /\ args' = [call |-> "run_workflow", workflow |-> workflow,
                   ticket |-> ticket, ticket_file |-> ticket_file,
                   user_prompt |-> user_prompt, tool_override |-> tool_override,
                   from_step |-> from_step, step_only |-> step_only]
       /\ IF ~built.seen
          THEN \* raise ValueError
               /\ ret' = Raise("ValueError")
               /\ UNCHANGED <<runs_dir, made>>
          ELSE /\ runs_dir' = WriteFile(runs_dir, path, text)
               /\ made' = Append(made, [path |-> path, text |-> text])
               /\ ret' = Ret(path)
       /\ UNCHANGED <<file, now, obj, stale, dirty, overlap, written, workflows_file, handoff>>
       /\ UNCHANGED engineVars

\* Invocations of run_workflow on the loaded definitions, with the clock.
NextRun ==
    \/ Tick
    \/ \E workflow \in Definitions, t \in TextArgs, from_step \in FromSteps,
          step_only \in BOOLEAN :
              RunWorkflow(workflow, t[1], NoTicketFile, t[2], Absent, Absent,
                          from_step, step_only)
InitRun == Init /\ \A i \in Steps : file.steps[i].retries = 0
SpecRun == InitRun /\ [][NextRun]_vars

(***************************************************************************)
(* Calls of AssistantResolver.resolve and _fallback_by_availability on      *)
(* every combination of arguments.                                          *)
(***************************************************************************)
\* Values of an optional assistant id: None, the empty string, an id.
OptionalIds == {Absent, "", "codex", "cursor"}

ResolveArgs ==
    [call : {""}, cli_override : OptionalIds, workflow_tool : OptionalIds,
     env_default : OptionalIds, project_default : OptionalIds,
     installed : SUBSET {FALLBACK_ORDER[i] : i \in 1..Len(FALLBACK_ORDER)}]

ResolveCall ==
    /\ args.call = ""
    /\ args' = [args EXCEPT !.call = "resolve"]
    /\ ret' = Ret(Resolve(args.cli_override, args.workflow_tool, args.env_default,
                          args.project_default, args.installed))
    /\ UNCHANGED <<file, now, obj, stale, dirty, overlap, written, runs_dir, made,
                 workflows_file, handoff>>
    /\ UNCHANGED engineVars

FallbackCall ==
    /\ args.call = ""
    /\ args' = [args EXCEPT !.call = "fallback"]
    /\ ret' = Ret(FallbackByAvailability(args.installed))
    /\ UNCHANGED <<file, now, obj, stale, dirty, overlap, written, runs_dir, made,
                 workflows_file, handoff>>
    /\ UNCHANGED engineVars

InitResolve ==
    /\ InitState
    /\ \A i \in Steps : file.steps[i].retries = 0
    /\ args \in ResolveArgs
    /\ ret = Ret(Absent)
NextResolve == ResolveCall \/ FallbackCall
SpecResolve == InitResolve /\ [][NextResolve]_vars

(***************************************************************************)
(* Calls of detect_issue_context and detect_ticket_source on texts made of  *)
(* up to two fragments: issue references of every kind the patterns know,   *)
(* near misses and plain words.                                             *)
(***************************************************************************)
MaxFragments == 2

Fragments ==
    {<<"A", "B", "-", "1">>,
     <<"Z", "-", "9", "2">>,
     <<"a", "b", "-", "1">>,
     <<"a", "t", "l", "a", "s", "s", "i", "a", "n", ".", "n", "e", "t">>,
     <<"g", "i", "t", "h", "u", "b", ".", "c", "o", "m", "/", "o", "/", "r", "/", "i", "s", "s", "u", "e", "s", "/", "7">>,
     <<"g", "i", "t", "h", "u", "b", ".", "c", "o", "m", "/", "o", "/", "r", "/", "p", "u", "l", "l", "/", "8">>,
     <<"o", "/", "r", "#", "7">>,
     <<"g", "i", "t", "l", "a", "b", ".", "c", "o", "m", "/", "o", "/", "r", "/", "-", "/", "i", "s", "s", "u", "e", "s", "/", "7">>,
     <<"g", "i", "t", "l", "a", "b", ".", "x", "/", "o", "/", "r", "/", "-", "/", "m", "e", "r", "g", "e", "_", "r", "e", "q", "u", "e", "s", "t", "s", "/", "9">>,
     <<"o", "/", "r", "!", "7">>,
     <<" ">>,
     <<"h", "i">>,
     <<"/">>}

RECURSIVE TextsOf(_)
TextsOf(n) ==
    IF n = 0 THEN {<<>>}
    ELSE TextsOf(n - 1) \cup {t \o f : t \in TextsOf(n - 1), f \in Fragments}

Texts == TextsOf(MaxFragments)

\* text_is_none: the text argument is None (not the empty string).
DetectArgs ==
    {[call |-> "", text |-> t, text_is_none |-> n, file_given |-> f] :
        t \in Texts, n \in BOOLEAN, f \in BOOLEAN} \ 
    {a \in [call : {""}, text : Texts, text_is_none : BOOLEAN, file_given : BOOLEAN] :
        a.text_is_none /\ a.text # <<>>}

DetectIssueContextCall ==
    /\ args.call = ""
    /\ args' = [args EXCEPT !.call = "detect_issue_context"]
    /\ ret' = Ret(DetectIssueContext(args.text))
    /\ UNCHANGED <<file, now, obj, stale, dirty, overlap, written, runs_dir, made,
                 workflows_file, handoff>>
    /\ UNCHANGED engineVars

DetectTicketSourceCall ==
    /\ args.call = ""
    /\ args' = [args EXCEPT !.call = "detect_ticket_source"]
    /\ ret' = Ret(DetectTicketSource(args.text, args.file_given))
    /\ UNCHANGED <<file, now, obj, stale, dirty, overlap, written, runs_dir, made,
                 workflows_file, handoff>>
    /\ UNCHANGED engineVars

InitDetect ==
    /\ InitState
    /\ \A i \in Steps : file.steps[i].retries = 0
    /\ args \in DetectArgs
    /\ ret = Ret(None)
NextDetect == DetectIssueContextCall \/ DetectTicketSourceCall
SpecDetect == InitDetect /\ [][NextDetect]_vars

(***************************************************************************)
(* Calls of load_workflows on template and project files of every shape.    *)
(***************************************************************************)
DemoFull ==
    YamlWorkflow("demo of the file", "claude",
        <<YamlStep("a", "planner", 0), YamlStep("b", "planner", 1)>>)
DemoBare == YamlWorkflow(Absent, Absent, <<YamlStep("x", "ticket_understander", 0)>>)
DemoNoPrompt ==
    YamlWorkflow("second step without prompt", "codex",
        <<YamlStep("a", "planner", 0), YamlStep("b", "", 0)>>)
DemoNoName ==
    YamlWorkflow("a step without name", Absent, <<YamlStep(Absent, "planner", 0)>>)
DemoNotNumeric ==
    YamlWorkflow("timeout_sec: soon", Absent,
        <<[YamlStep("a", "planner", 0) EXCEPT !.numeric = FALSE]>>)
DemoNotMapping == [YamlWorkflow(Absent, Absent, <<>>) EXCEPT !.mapping = FALSE]

DemoEntries ==
    {DemoFull, DemoBare, DemoNoPrompt, DemoNoName, DemoNotNumeric, DemoNotMapping}

Named(name, entries) ==
    {NoEntries} \cup {[n \in {name} |-> e] : e \in entries}

Malformed ==
    {YamlDoc(k, "absent", NoEntries) : k \in {"missing", "unparseable", "empty", "list"}}
        \cup {YamlDoc("mapping", w, NoEntries) : w \in {"absent", "null", "number"}}

TemplateDocs ==
    Malformed \cup
    {YamlDoc("mapping", "mapping", Update(d, o)) :
        d \in Named("demo", DemoEntries), o \in Named("other", {DemoFull})}

ProjectDocs ==
    Malformed \cup
    {YamlDoc("mapping", "mapping", Update(d, o)) :
        d \in Named("demo", DemoEntries), o \in Named("mine", {DemoBare, DemoNoPrompt})}

LoadWorkflowsCall ==
    /\ args.call = ""
    /\ args' = [args EXCEPT !.call = "load_workflows"]
    /\ ret' = LoadWorkflowsFrom(args.template, args.project)
    /\ UNCHANGED <<file, now, obj, stale, dirty, overlap, written, runs_dir, made,
                 workflows_file, handoff>>
    /\ UNCHANGED engineVars

InitLoad ==
    /\ InitState
    /\ \A i \in Steps : file.steps[i].retries = 0
    /\ args \in [call : {""}, template : TemplateDocs, project : ProjectDocs]
    /\ ret = Ret(None)
NextLoad == LoadWorkflowsCall
SpecLoad == InitLoad /\ [][NextLoad]_vars

(***************************************************************************)
(* Calls of ensure_workflows_file while the user edits or removes the      *)
(* project's workflows file.                                               *)
(***************************************************************************)
EnsureWorkflowsFileCall ==
    /\ "template" \in DOMAIN args
    /\ \E disk \in DiskOutcomes :
          LET done == EnsureWorkflowsFile(workflows_file, args.template, disk)
          IN /\ workflows_file' = done.file
             /\ ret' = done.ret
             /\ args' = [args EXCEPT !.call = "ensure_workflows_file", !.disk = disk]
    /\ UNCHANGED <<file, now, obj, stale, dirty, overlap, written, runs_dir, made, handoff>>
    /\ UNCHANGED engineVars

\* The user writes the project's workflows file, or removes it.
EditWorkflowsFile ==
    /\ "template" \in DOMAIN args
    /\ \E doc \in ProjectDocs : workflows_file' = doc
    /\ args' = [args EXCEPT !.call = "edit"]
    /\ UNCHANGED <<file, now, obj, stale, dirty, overlap, written, runs_dir, made, ret, handoff>>
    /\ UNCHANGED engineVars

InitEnsure ==
    /\ InitState
    /\ \A i \in Steps : file.steps[i].retries = 0
    /\ args \in [call : {""}, disk : {"ok"}, template : TemplateDocs]
    /\ ret = Ret(None)
NextEnsure == EnsureWorkflowsFileCall \/ EditWorkflowsFile
SpecEnsure == InitEnsure /\ [][NextEnsure]_vars

\* Steps of execute_manifest with the runner's outcomes drawn from the given
\* sets.
EngineNext(stdouts, errs) ==
    \/ ExecStart
    \/ ForSkip
    \/ ForEnter
    \/ \E stdout \in stdouts : RunnerOk(stdout)
    \/ \E err \in errs : RunnerRaise(err)
    \/ WhileExit
    \/ ExecFinish

\* Calls on a WorkflowManifest object with arguments drawn from the given sets.
ManifestNext(names, results, saves) ==
    \/ \E o \in Objs : Construct(o)
    \/ \E o \in Objs, n \in names, r \in results,
          st \in StatusArgs, save \in saves :
              MarkStepComplete(o, n, r, st, save)
    \/ \E o \in Objs, n \in names, e \in results,
          save \in saves : MarkStepFailed(o, n, e, save)
    \/ \E o \in Objs, u \in Updates(results) : BatchUpdate(o, u)

CliNext == \E n \in Names \cup {AllSteps} : MarkStepsComplete(n)

\* execute_manifest run (and re-run) on its own, with the clock.
NextExec == Tick \/ EngineNext(ResultTexts, ErrTexts)
SpecExec == Init /\ [][NextExec]_vars

\* The same with every runner call returning or raising and the loop going on:
\* a step of execute_manifest that can be taken is taken.
SpecExecFair ==
    Init /\ [][NextExec]_vars /\ WF_vars(EngineNext(ResultTexts, ErrTexts))

\* A handed-off assistant updating the manifest through WorkflowManifest while
\* the mark-complete command rewrites the same file.
InitManifest == Init /\ \A i \in Steps : file.steps[i].retries = 0
NextManifest == ManifestNext(Names, ResultTexts, BOOLEAN) \/ CliNext
SpecManifest == InitManifest /\ [][NextManifest]_vars

\* All writers, restricted to the single-writer discipline: no writer saves a
\* copy that another writer has overwritten since it was read.  Every object
\* call saves (save = True, the default) and names a step of the manifest (a
\* call that raises ValueError writes nothing).
Disciplined == overlap' = FALSE
NextSingleWriter ==
    \/ ExecStart /\ Disciplined
    \/ ForSkip /\ Disciplined
    \/ ForEnter /\ Disciplined
    \/ RunnerOk(PlainText) /\ Disciplined
    \/ RunnerRaise(PlainErr) /\ Disciplined
    \/ WhileExit /\ Disciplined
    \/ ExecFinish /\ Disciplined
    \/ \E o \in Objs : Construct(o) /\ Disciplined
    \/ \E o \in Objs, n \in Names, st \in StatusArgs :
          MarkStepComplete(o, n, PlainText, st, TRUE) /\ Disciplined
    \/ \E o \in Objs, n \in Names :
          MarkStepFailed(o, n, PlainText, TRUE) /\ Disciplined
    \/ \E o \in Objs, u \in Updates({PlainText}) :
          BatchUpdate(o, u) /\ Disciplined
    \/ \E n \in Names \cup {AllSteps} : MarkStepsComplete(n) /\ Disciplined
SpecSingleWriter == Init /\ [][NextSingleWriter]_vars

\* Every writer with no discipline at all: execute_manifest, the mark-complete
\* command and a WorkflowManifest object interleave freely, and the object's
\* calls may pass a status of their own.
NextAll ==
    \/ ExecStart
    \/ ForSkip
    \/ ForEnter
    \/ RunnerOk(PlainText)
    \/ RunnerRaise(PlainErr)
    \/ WhileExit
    \/ ExecFinish
    \/ \E o \in Objs : Construct(o)
    \/ \E o \in Objs, n \in Names, st \in {"ok", CustomStatus} :
          MarkStepComplete(o, n, PlainText, st, TRUE)
    \/ \E o \in Objs, n \in Names : MarkStepFailed(o, n, PlainText, TRUE)
    \/ \E o \in Objs, u \in Updates({PlainText}) : BatchUpdate(o, u)
    \/ \E n \in Names \cup {AllSteps} : MarkStepsComplete(n)
SpecAll == InitManifest /\ [][NextAll]_vars

\* A WorkflowManifest object on its own, its calls naming steps the manifest
\* has and a step it lacks.
NextErrors == ManifestNext(Names \cup {MissingName}, ResultTexts, BOOLEAN)
SpecErrors == InitManifest /\ [][NextErrors]_vars

\* execute_manifest and a WorkflowManifest object that marks steps failed,
\* with the commands on the manifest: validate, check_workflow_status and
\* mark_steps_complete.
NextStatus ==
    \/ ExecStart
    \/ ForSkip
    \/ ForEnter
    \/ RunnerOk(PlainText)
    \/ RunnerRaise(PlainErr)
    \/ WhileExit
    \/ ExecFinish
    \/ \E o \in Objs : Construct(o)
    \/ \E o \in Objs, n \in Names : MarkStepFailed(o, n, PlainText, TRUE)
    \/ \E o \in Objs : Validate(o)
    \/ CheckWorkflowStatus
    \/ \E n \in Names \cup {AllSteps} : MarkStepsComplete(n)
SpecStatus == InitManifest /\ [][NextStatus]_vars

(***************************************************************************)
(* Calls of handoff_to_assistant on the manifest, the assistant updating   *)
(* the manifest through WorkflowManifest while it runs.                    *)
(***************************************************************************)
Assistants == {"claude", "codex", "gemini", "ollama", "cursor", "zed"}
\* The binaries found on the PATH.
Installs ==
    {{}, {"claude", "gemini"}, {"codex", "ollama", "cursor"},
     {"claude", "codex", "gemini", "ollama", "cursor"}}
ReturnCodes == {0, 1}

\* handoff_to_assistant is called and launches the assistant or returns.
HandoffLaunch(manifest_path, assistant, installed, launch) ==
    /\ handoff.pc \in {"idle", "returned"}
    /\ handoff' = [HandoffToAssistant(manifest_path, assistant, installed, launch)
                      EXCEPT !.before = file]
    /\ args' = [call |-> "handoff_to_assistant", manifest_path |-> manifest_path,
                assistant |-> assistant, installed |-> installed]
    /\ UNCHANGED <<file, now, obj, stale, dirty, overlap, written, runs_dir, made,
                   workflows_file, ret>>
    /\ UNCHANGED engineVars

\* The assistant exits and handoff_to_assistant returns.
HandoffExit(returncode) ==
    /\ handoff.pc = "running"
    /\ handoff' = HandoffReturned(handoff, returncode)
    /\ UNCHANGED <<file, now, obj, stale, dirty, overlap, written, runs_dir, made,
                   workflows_file, args, ret>>
    /\ UNCHANGED engineVars

\* The assistant is at work: the process handoff_to_assistant launched runs.
AtWork == handoff.pc \in {"running", "replaced"}

NextHandoff ==
    \/ \E assistant \in Assistants, installed \in Installs, launch \in Launches :
          HandoffLaunch(ManifestPath, assistant, installed, launch)
    \/ \E returncode \in ReturnCodes : HandoffExit(returncode)
    \/ \E o \in Objs : AtWork /\ Construct(o)
    \/ \E o \in Objs, n \in Names : AtWork /\ MarkStepComplete(o, n, PlainText, "ok", TRUE)
    \/ \E o \in Objs, n \in Names : AtWork /\ MarkStepFailed(o, n, PlainText, TRUE)
SpecHandoff == InitManifest /\ [][NextHandoff]_vars

(***************************************************************************)
(* The workflow command of the CLI: run_workflow, then the handoff.        *)
(***************************************************************************)
\* Workflows with and without a default tool and tools of their steps.
CommandSpecs ==
    {WorkflowSpecOf("demo",
         YamlWorkflow("demo workflow", tool,
             <<[YamlStep("a", "planner", 0) EXCEPT !.tool = a],
               [YamlStep("b", "planner", 0) EXCEPT !.tool = b]>>)) :
        tool \in {Absent, "codex"}, a \in {Absent, "gemini"}, b \in {Absent, ""}}
ToolOverrides == {Absent, "", "cursor"}
EnvDefaults == {Absent, "ollama"}
ProjectDefaults == {Absent, "zed"}

CommandArgs ==
    [call : {""}, workflow : CommandSpecs, tool_override : ToolOverrides,
     project_default_assistant : ProjectDefaults, env_default : EnvDefaults,
     installed : Installs, handoff : BOOLEAN]

\* ai workflow <name> <ticket> [--tool T] [--handoff]: run_workflow writes the
\* manifest; with --handoff the manifest is handed to an assistant.
WorkflowCommand(launch) ==
    /\ args.call = ""
    /\ LET spec == args.workflow
           built == BuildManifest(spec, JiraTicket, NoTicketFile, <<>>,
                                  args.tool_override, args.project_default_assistant,
                                  Absent, FALSE, args.env_default, args.installed, now)
           run_path == RunPath(spec.name, now)
           text == JsonDumps(Persisted(built.manifest, run_path))
           assistant == Or(args.tool_override,
                           Or(spec.tool_default, FallbackByAvailability(args.installed)))
       IN /\ runs_dir' = WriteFile(runs_dir, run_path, text)
          /\ made' = Append(made, [path |-> run_path, text |-> text])
          /\ handoff' = IF args.handoff
                        THEN [HandoffToAssistant(run_path, assistant, args.installed, launch)
                                 EXCEPT !.before = text]
                        ELSE handoff
    /\ args' = [args EXCEPT !.call = "workflow"]
    /\ UNCHANGED <<file, now, obj, stale, dirty, overlap, written, workflows_file, ret>>
    /\ UNCHANGED engineVars

InitCommand ==
    /\ InitState
    /\ \A i \in Steps : file.steps[i].retries = 0
    /\ args \in CommandArgs
    /\ ret = Ret(None)
NextCommand ==
    \/ \E launch \in Launches : WorkflowCommand(launch)
    \/ \E returncode \in ReturnCodes : HandoffExit(returncode)
SpecCommand == InitCommand /\ [][NextCommand]_vars

(***************************************************************************)
(* Properties of execute_manifest (SpecExec).                              *)
(***************************************************************************)
EntrySteps == 1..Len(entry.steps)
EntryOk(i) == entry.steps[i].output.status = "ok"
Attempted(i) == runs[i] # <<>>
AllRaised(i) == \A k \in 1..Len(runs[i]) : ~runs[i][k].ok
Returned == pc = "idle" /\ idx > 0

\* C1: execute_manifest never calls the runner for a step that is "ok" on
\* entry and leaves its output record as it was, and every step that is not
\* "ok" on entry is attempted once the loop has passed it.
C1_ResumeIdempotence ==
    \A i \in EntrySteps :
        /\ EntryOk(i) =>
              /\ ~Attempted(i)
              /\ data.steps[i].output = entry.steps[i].output
              /\ Returned => JsonLoads(file).steps[i].output = entry.steps[i].output
        /\ (~EntryOk(i) /\ idx > i) => Attempted(i)

\* C2: a step with retries = r >= 0 whose runner raises on every call is
\* called exactly r+1 times, ends "error" with the last error text and
\* attempt = r+1, and the manifest written at the end has completed_at set.
C2_RetryExhaustion ==
    \A i \in EntrySteps :
        LET r == entry.steps[i].retries
        IN (idx > i /\ ~EntryOk(i) /\ r >= 0 /\ AllRaised(i)) =>
              /\ Len(runs[i]) = r + 1
              /\ data.steps[i].output.status = "error"
              /\ data.steps[i].output.result = ErrorResult(runs[i][r + 1].text, r + 1)
              /\ Returned =>
                    /\ file.completed_at # 0
                    /\ JsonLoads(file).steps[i].output = data.steps[i].output

C2_Witness ==
    /\ Returned
    /\ \E i \in EntrySteps :
          /\ entry.steps[i].retries = MaxRetries
          /\ Len(runs[i]) = MaxRetries + 1
          /\ AllRaised(i)
          /\ runs[i][1].text # runs[i][MaxRetries + 1].text
          /\ file.steps[i].output.status = "error"

\* C3: when the runner first succeeds on attempt k <= retries+1 the runner
\* was called exactly k times, nothing follows the success, and the step is
\* "ok" with the runner's return value as result.
C3_FirstSuccessStops ==
    \A i \in EntrySteps :
        \A k \in 1..Len(runs[i]) :
            runs[i][k].ok =>
                /\ k = Len(runs[i])
                /\ k <= entry.steps[i].retries + 1
                /\ data.steps[i].output.status = "ok"
                /\ data.steps[i].output.result = RunnerResult(runs[i][k].text)
                /\ Returned => JsonLoads(file).steps[i].output = data.steps[i].output

C3_Witness ==
    /\ Returned
    /\ \E i \in EntrySteps :
          /\ Len(runs[i]) = 2
          /\ ~runs[i][1].ok
          /\ runs[i][2].ok
          /\ file.steps[i].output.status = "ok"

\* C5: as soon as a step of the running execute_manifest has finished, its
\* status and result are in the manifest file, before the next step starts.
C5_PersistedPerStep ==
    \A i \in EntrySteps :
        (pc # "idle" /\ idx > i /\ Attempted(i)) =>
            SR(JsonLoads(file).steps[i]) = SR(data.steps[i])

\* C6: a runner failure on a step never aborts the run: every later step that
\* is not already "ok" is still attempted, and the run returns with
\* completed_at written to the manifest.
C6_FailureNeverAborts ==
    /\ \A i \in EntrySteps : \A j \in EntrySteps :
          (i < j /\ idx > j /\ Attempted(i) /\ ~runs[i][1].ok /\ ~EntryOk(j))
              => Attempted(j)
    /\ Returned => file.completed_at # 0

\* C7: whenever the manifest has completed_at set, no step is "not-run",
\* for every retry budget including negative ones.
C7_CompletedImpliesAttempted ==
    file.completed_at # 0 =>
        \A i \in 1..Len(file.steps) : file.steps[i].output.status # "not-run"

(***************************************************************************)
(* Properties of the WorkflowManifest helper (SpecManifest).               *)
(***************************************************************************)
\* C8: mark_step_complete(name, result) with default arguments, then loading
\* the file again, gives that step "ok" with the identical result and every
\* other step as the object held it; mark_step_failed likewise gives
\* "failed" and the error as result.
C8_RoundTrip ==
    [][\A o \in Objs, n \in Names, r \in ResultTexts :
          LET i == FindStep(obj[o].data, n)
              reloaded == JsonLoads(file')
              marked(status) ==
                  /\ reloaded.steps[i].output.status = status
                  /\ reloaded.steps[i].output.result = Str(r)
                  /\ \A j \in 1..Len(reloaded.steps) :
                        j # i => reloaded.steps[j] = obj[o].data.steps[j]
          IN /\ (i # 0 /\ MarkStepComplete(o, n, r, "ok", TRUE)) => marked("ok")
             /\ (i # 0 /\ MarkStepFailed(o, n, r, TRUE)) => marked("failed")
      ]_vars

C8_Witness ==
    \E i \in Steps, j \in Steps :
        /\ SR(JsonLoads(file).steps[i]) = [status |-> "ok", result |-> Str(<<"\\", "n">>)]
        /\ SR(JsonLoads(file).steps[j]) = [status |-> "failed", result |-> Str(<<"\\", "n">>)]
        /\ file.steps[i].output.result.text # <<"\\", "n">>

\* Steps a batch_update call of object o updates.
Hit(o, u) == {i \in Steps : \E n \in DOMAIN u : FindStep(obj[o].data, n) = i}

\* C9 as claimed: a save through a WorkflowManifest object keeps, for every
\* step the object has not updated, the status the file holds at that moment
\* (so a change made by another process after construction survives).
KeepsFileStatus(o, targets) ==
    \A j \in Steps \ (targets \cup dirty[o]) :
        file'.steps[j].output.status = file.steps[j].output.status

C9_ReadsCurrentFile ==
    [][\A o \in Objs :
          /\ \A n \in Names, r \in ResultTexts, st \in StatusArgs :
                MarkStepComplete(o, n, r, st, TRUE) =>
                    KeepsFileStatus(o, {FindStep(obj[o].data, n)})
          /\ \A u \in Updates(ResultTexts) :
                BatchUpdate(o, u) => KeepsFileStatus(o, Hit(o, u))
      ]_vars

\* C9 amended: a save writes the object's in-memory copy, read at
\* construction; steps it does not update are written as the object holds
\* them, and they equal the file's current contents only when nobody else
\* wrote the file since the object read it.
WritesCopy(o, targets) ==
    /\ file' = JsonDumps(obj'[o].data)
    /\ \A j \in Steps \ targets :
          /\ JsonLoads(file').steps[j] = obj[o].data.steps[j]
          /\ (~stale[o] /\ ~overlap /\ j \notin dirty[o]) =>
                 file'.steps[j] = file.steps[j]

C9_WritesOwnCopy ==
    [][\A o \in Objs :
          /\ \A n \in Names, r \in ResultTexts, st \in StatusArgs :
                MarkStepComplete(o, n, r, st, TRUE) =>
                    WritesCopy(o, {FindStep(obj[o].data, n)})
          /\ \A u \in Updates(ResultTexts) :
                BatchUpdate(o, u) => WritesCopy(o, Hit(o, u))
      ]_vars

C9_Witness ==
    /\ overlap
    /\ obj["assistant"].live
    /\ file = JsonDumps(obj["assistant"].data)
    /\ \E i \in Steps, j \in Steps :
          /\ file.steps[i].output.status = "ok"
          /\ file.steps[j].output.status = "not-run"

(***************************************************************************)
(* Properties of all writers under the single-writer discipline            *)
(* (SpecSingleWriter).                                                     *)
(***************************************************************************)
\* C4 as claimed: a step that is "ok" in the file stays "ok" with the same
\* result whatever operation comes next.
C4_OkTerminal ==
    [][\A i \in Steps :
          file.steps[i].output.status = "ok" =>
              /\ file'.steps[i].output.status = "ok"
              /\ file'.steps[i].output.result = file.steps[i].output.result
      ]_vars

\* C4 amended: execute_manifest and mark_steps_complete never overwrite an
\* "ok" step: a step "ok" in the manifest they read keeps its output through
\* the run and in the file they write.
C4_EngineKeepsOk ==
    [][/\ pc # "idle" =>
             \A i \in 1..Len(data.steps) :
                 data.steps[i].output.status = "ok" =>
                     data'.steps[i].output = data.steps[i].output
       /\ (pc = "for" /\ pc' = "idle") =>
             \A i \in EntrySteps :
                 EntryOk(i) => JsonLoads(file').steps[i].output = entry.steps[i].output
       /\ (\E n \in Names \cup {AllSteps} : MarkStepsComplete(n)) =>
             \A i \in Steps :
                 file.steps[i].output.status = "ok" => file'.steps[i] = file.steps[i]
      ]_vars

C4_Witness ==
    /\ Returned
    /\ \E i \in EntrySteps, j \in EntrySteps :
          /\ EntryOk(i)
          /\ ~Attempted(i)
          /\ Attempted(j)
          /\ JsonLoads(file).steps[i].output = entry.steps[i].output
          /\ file.steps[i].output.result = EncodeValue(Str(ManualText))

\* C10: while no writer has written inside another writer's read-to-write
\* window, the status and result last written for a step are still in the
\* file.
C10_NoLostUpdate ==
    ~overlap =>
        \A i \in Steps :
            written[i] # NoWrite => SR(JsonLoads(file).steps[i]) = written[i]

C10_Witness ==
    /\ ~overlap
    /\ \E i \in Steps, j \in Steps :
          /\ written[i].status = "failed"
          /\ file.steps[i].output.status = "failed"
          /\ written[j].status = "error"
          /\ file.steps[j].output.status = "error"

(***************************************************************************)
(* Properties of WorkflowManifest calls that name a missing step           *)
(* (SpecErrors).                                                           *)
(***************************************************************************)
\* C11: mark_step_complete and mark_step_failed with a step name the manifest
\* does not have raise ValueError and change neither the object's data nor
\* the manifest file.
C11_MissingNameRaises ==
    [][\A o \in Objs, r \in ResultTexts, save \in BOOLEAN :
          /\ \A st \in StatusArgs :
                MarkStepComplete(o, MissingName, r, st, save) =>
                    /\ ret' = Raise("ValueError")
                    /\ obj' = obj
                    /\ file' = file
          /\ MarkStepFailed(o, MissingName, r, save) =>
                /\ ret' = Raise("ValueError")
                /\ obj' = obj
                /\ file' = file
      ]_vars

C11_Witness ==
    /\ ret = Raise("ValueError")
    /\ obj["assistant"].live
    /\ \E i \in Steps : obj["assistant"].data.steps[i].output.status = "failed"
    /\ \E i \in Steps : file.steps[i].output.status = "ok"

(***************************************************************************)
(* Properties of every writer together (SpecAll).                          *)
(***************************************************************************)
StatusSet == {"not-run", "ok", "error", "failed"}

\* C12 as claimed: every step's output.status in the manifest file is one of
\* "not-run", "ok", "error", "failed", whatever sequence of execute_manifest,
\* mark_steps_complete and WorkflowManifest calls has run.
C12_StatusInSet ==
    \A i \in 1..Len(file.steps) : file.steps[i].output.status \in StatusSet

\* C12 amended: every step's status is one of the four or a status that a
\* mark_step_complete call was given: that call stores its status argument
\* as it is, and execute_manifest, mark_steps_complete, mark_step_failed and
\* batch_update store only "ok", "error" and "failed".
C12_StatusInSetOrPassed ==
    /\ \A i \in 1..Len(file.steps) :
          file.steps[i].output.status \in StatusSet \cup {CustomStatus}
    /\ \A i \in 1..Len(data.steps) :
          Attempted(i) => data.steps[i].output.status \in {"ok", "error"}
    /\ \A i \in Steps : written[i].status \in StatusSet \cup {CustomStatus, "none"}

C12_Witness ==
    \E i \in Steps, j \in Steps :
        /\ file.steps[i].output.status = CustomStatus
        /\ file.steps[j].output.status = "error"

\* C16: after run_workflow and any sequence of execute_manifest,
\* mark_steps_complete and WorkflowManifest updates, the manifest file's
\* manifest_path is the path of the file it is stored in, and the workflow
\* name, the step names and their order are as run_workflow wrote them.

C16_LocationFixed ==
    /\ file.manifest_path = ManifestPath
    /\ file.workflow = "demo"
    /\ Len(file.steps) = NumSteps
    /\ \A i \in Steps : file.steps[i].name = StepName(i)

C16_Witness ==
    /\ overlap
    /\ file.completed_at # 0
    /\ file.manifest_path = ManifestPath
    /\ \E i \in Steps, j \in Steps :
          /\ file.steps[i].output.status = "failed"
          /\ file.steps[j].output.status = "error"

(***************************************************************************)
(* Properties of run_workflow (SpecRun).                                   *)
(***************************************************************************)
Called == args.call = "run_workflow"
Succeeded == Called /\ ret.raised = ""
\* The manifest the last call wrote, read back from the path it returned.
LastManifest == JsonLoads(runs_dir[ret.value])
NamesOf(steps) == [i \in 1..Len(steps) |-> steps[i].name]
Unique(names) ==
    \A i \in 1..Len(names) : \A j \in 1..Len(names) : names[i] = names[j] => i = j

\* C13: run_workflow with a from_step that names no step of the workflow
\* raises ValueError with nothing persisted: no manifest file is created and
\* the directory of runs is as it was.  (An empty from_step is not a
\* from_step: "if from_step:".)
C13_FromStepAbsentRaises ==
    [][(/\ args'.call = "run_workflow"
        /\ now' = now
        /\ Truthy(args'.from_step)
        /\ \A i \in 1..Len(args'.workflow.steps) :
              args'.workflow.steps[i].name # args'.from_step)
       => /\ ret' = Raise("ValueError")
          /\ runs_dir' = runs_dir
          /\ made' = made
      ]_vars

C13_Witness ==
    /\ Called
    /\ ret = Raise("ValueError")
    /\ args.from_step = "b"
    /\ args.workflow.name = "blank"
    /\ Len(made) = 1
    /\ DOMAIN runs_dir = {made[1].path}

\* C14: with from_step = n present the manifest's steps are the suffix of the
\* definition's steps from the first step named n on, in order; with
\* step_only, only the first step of that range (the workflow's first step
\* when no from_step is given); with neither, all steps in order.
C14_StepSelection ==
    Succeeded =>
        LET defined == NamesOf(args.workflow.steps)
            at == {i \in 1..Len(defined) : defined[i] = args.from_step}
            first == IF Truthy(args.from_step) THEN Min(at) ELSE 1
            range == SubSeq(defined, first, Len(defined))
            stored == LastManifest.steps
        IN /\ Len(stored) = IF args.step_only /\ range # <<>> THEN 1 ELSE Len(range)
           /\ \A i \in 1..Len(stored) :
                 /\ stored[i].name = range[i]
                 /\ stored[i].prompt_id = args.workflow.steps[first + i - 1].prompt
                 /\ stored[i].retries = args.workflow.steps[first + i - 1].retries

C14_Witness ==
    /\ Succeeded
    /\ args.workflow.name = "twice"
    /\ args.from_step = "a"
    /\ ~args.step_only
    /\ NamesOf(LastManifest.steps) = <<"a", "b", "a">>
    /\ \E k \in 1..Len(made) :
          /\ NamesOf(made[k].text.steps) = <<"b">>
          /\ made[k].text.workflow = "demo"

\* C15: every run_workflow that returns has a manifest file of its own: the
\* paths returned are distinct, also for two runs of the same workflow within
\* the same second, and no run overwrites the manifest of an earlier one.
C15_OwnManifestPerRun ==
    \A k \in 1..Len(made) :
        /\ \A j \in 1..Len(made) : j # k => made[j].path # made[k].path
        /\ runs_dir[made[k].path] = made[k].text

\* C17: step names are unique within every workflow definition load_workflows
\* returns and within every manifest run_workflow writes from one.
C17_UniqueStepNames ==
    /\ Called => Unique(NamesOf(args.workflow.steps))
    /\ \A k \in 1..Len(made) : Unique(NamesOf(made[k].text.steps))

\* C18 as claimed: with ticket "ABC-1" and a user prompt without an issue
\* reference every step has input.user_prompt equal to the prompt and
\* input.issue_context.issue_type "jira".
C18_JiraFromTicket ==
    (Succeeded /\ args.ticket = JiraTicket /\ args.user_prompt = Hello) =>
        \A i \in 1..Len(LastManifest.steps) :
            /\ LastManifest.steps[i].input.user_prompt = Hello
            /\ LastManifest.steps[i].input.issue_context.issue_type = "jira"

\* C18 amended: the issue context is detected in the user prompt when one is
\* given and in the ticket only when none is: with ticket "ABC-1" and such a
\* prompt every step has input.user_prompt equal to the prompt,
\* input.ticket_source "jira" and an issue context with is_issue false and
\* issue_type null; with the same ticket and no prompt, issue_type is "jira".
C18_IssueFromPrompt ==
    (Succeeded /\ args.ticket = JiraTicket) =>
        \A i \in 1..Len(LastManifest.steps) :
            LET input == LastManifest.steps[i].input
            IN /\ input.ticket_source = "jira"
               /\ LastManifest.ticket_source = "jira"
               /\ args.user_prompt = Hello =>
                     /\ input.user_prompt = Hello
                     /\ input.issue_context = IssueContext(FALSE, Absent, <<>>, Absent)
               /\ args.user_prompt = <<>> =>
                     /\ input.user_prompt = JiraTicket
                     /\ input.issue_context =
                            IssueContext(TRUE, "jira", JiraTicket, "jira_key")

C18_Witness ==
    /\ Succeeded
    /\ args.ticket = JiraTicket
    /\ args.user_prompt = Hello
    /\ Len(LastManifest.steps) = 3
    /\ LastManifest.steps[1].input.issue_context.issue_type = Absent
    /\ LastManifest.steps[1].input.ticket_source = "jira"

(***************************************************************************)
(* Properties of AssistantResolver (SpecResolve).                          *)
(***************************************************************************)
Resolved == args.call = "resolve"
NoneSet ==
    /\ ~Truthy(args.cli_override)
    /\ ~Truthy(args.workflow_tool)
    /\ ~Truthy(args.env_default)
    /\ ~Truthy(args.project_default)

\* C19: resolve always returns, and returns the first non-empty value of
\* cli_override, workflow_tool, env_default, project_default, "claude" (None
\* and the empty string count as empty); the result is a non-empty string.
C19_FirstNonEmpty ==
    Resolved =>
        /\ ret.raised = ""
        /\ ret.value \notin {Absent, ""}
        /\ ret.value =
              IF args.cli_override \notin {Absent, ""} THEN args.cli_override
              ELSE IF args.workflow_tool \notin {Absent, ""} THEN args.workflow_tool
              ELSE IF args.env_default \notin {Absent, ""} THEN args.env_default
              ELSE IF args.project_default \notin {Absent, ""} THEN args.project_default
              ELSE "claude"

C19_Witness ==
    /\ Resolved
    /\ args.cli_override = ""
    /\ args.workflow_tool = Absent
    /\ args.env_default = "cursor"
    /\ args.project_default = "codex"
    /\ ret = Ret("cursor")

\* C20 as claimed: with none of the four set, resolve returns the first
\* installed assistant in the order claude, codex, cursor, gemini, ollama.
C20_FallsBackToInstalled ==
    (Resolved /\ NoneSet /\ args.installed # {}) =>
        /\ ret.value \in args.installed
        /\ \A i \in 1..Len(FALLBACK_ORDER) :
              FALLBACK_ORDER[i] = ret.value =>
                  \A j \in 1..(i - 1) : FALLBACK_ORDER[j] \notin args.installed

\* C20 amended: with none of the four set, resolve returns the hard default
\* "claude" whatever is installed (also with only codex installed): the
\* availability probing is never reached from resolve.
C20_HardDefault ==
    (Resolved /\ NoneSet) => ret = Ret("claude")

C20_Witness ==
    /\ Resolved
    /\ NoneSet
    /\ args.installed = {"codex"}
    /\ args.env_default = ""
    /\ ret = Ret("claude")

\* C21: for every installed/not-installed assignment over claude, codex,
\* cursor, gemini, ollama, _fallback_by_availability returns the first
\* installed assistant in that order, and "claude" when none is installed.
FellBack == args.call = "fallback"

C21_FirstInstalled ==
    FellBack =>
        /\ args.installed = {} => ret = Ret("claude")
        /\ args.installed # {} =>
              /\ ret.raised = ""
              /\ ret.value \in args.installed
              /\ \A i \in 1..Len(FALLBACK_ORDER) :
                    FALLBACK_ORDER[i] = ret.value =>
                        \A j \in 1..(i - 1) : FALLBACK_ORDER[j] \notin args.installed

C21_Witness ==
    /\ FellBack
    /\ args.installed = {"cursor", "ollama"}
    /\ ret = Ret("cursor")

(***************************************************************************)
(* Properties of detect_issue_context and detect_ticket_source             *)
(* (SpecDetect).                                                           *)
(***************************************************************************)
Detected == args.call = "detect_issue_context"
Sourced == args.call = "detect_ticket_source"

\* Which of the seven rules the text matches, in the order the claim lists.
RuleMatches(t) ==
    <<Contains(t, AtlassianNet),
      JiraKeyStarts(t) # {},
      UrlStarts(t, GithubCom, <<"/">>, {Issues, Pull}) # {},
      ShorthandMatch(t, NotHash, {"#"}),
      UrlStarts(t, GitlabCom, <<"/", "-", "/">>, {Issues, MergeRequests}) # {},
      SelfHostedStarts(t) # {},
      ShorthandMatch(t, NotBangHash, {"!", "#"}) /\ Contains(t, <<"!">>)>>
RulePattern ==
    <<"atlassian_url", "jira_key", "github_url", "github_shorthand",
      "gitlab_url", "gitlab_self_hosted_url", "gitlab_shorthand">>
RuleType == <<"jira", "jira", "github", "github", "gitlab", "gitlab", "gitlab">>
RuleHits(t) == {k \in 1..7 : RuleMatches(t)[k]}
AllNull == [is_issue |-> FALSE, issue_type |-> Absent, issue_id |-> <<>>,
            detected_pattern |-> Absent]

\* C22: detect_issue_context answers with the highest-priority rule the
\* text matches (Atlassian URL, Jira key, GitHub URL, GitHub shorthand,
\* gitlab.com URL, self-hosted GitLab URL, GitLab shorthand), and with
\* not-an-issue when it matches none; a text with a Jira key and a GitHub
\* issue URL is jira with the key as id.
C22_FirstMatchWins ==
    Detected =>
        LET t == args.text
            hits == RuleHits(t)
        IN IF hits = {} THEN ret = Ret(AllNull)
           ELSE /\ ret.raised = ""
                /\ ret.value.is_issue
                /\ ret.value.detected_pattern = RulePattern[Min(hits)]
                /\ ret.value.issue_type = RuleType[Min(hits)]
                /\ Min(hits) = 2 => ret.value.issue_id = JiraKey(t)
                /\ Min(hits) \in {4, 7} => ret.value.issue_id = t

C22_Witness ==
    /\ Detected
    /\ RuleHits(args.text) = {2, 3}
    /\ ret.value.detected_pattern = "jira_key"
    /\ ret.value.issue_id = <<"A", "B", "-", "1">>

\* t[i..j] is an uppercase key: letters, a dash, digits.
IsKeyAt(t, i, j) ==
    \E d \in (i + 1)..(j - 1) :
        /\ t[d] = "-"
        /\ \A k \in i..(d - 1) : t[k] \in Upper
        /\ \A k \in (d + 1)..j : t[k] \in Digits
HasKey(t) == \E i \in 1..Len(t), j \in 1..Len(t) : IsKeyAt(t, i, j)
\* The leftmost key, as long as it can be.
IsLeftmostKey(t, i, j) ==
    /\ IsKeyAt(t, i, j)
    /\ \A i2 \in 1..(i - 1), j2 \in 1..Len(t) : ~IsKeyAt(t, i2, j2)
    /\ \A j2 \in (j + 1)..Len(t) : ~IsKeyAt(t, i, j2)

\* C23: a text with an uppercase key and no Atlassian host is a jira issue
\* found by "jira_key", its id the leftmost key, whatever else it contains.
C23_JiraKey ==
    (Detected /\ HasKey(args.text) /\ ~Contains(args.text, AtlassianNet)) =>
        /\ ret.raised = ""
        /\ ret.value.is_issue
        /\ ret.value.issue_type = "jira"
        /\ ret.value.detected_pattern = "jira_key"
        /\ \E i \in 1..Len(args.text), j \in 1..Len(args.text) :
              /\ IsLeftmostKey(args.text, i, j)
              /\ ret.value.issue_id = SubSeq(args.text, i, j)

C23_Witness ==
    /\ Detected
    /\ args.text = <<"Z", "-", "9", "2", "A", "B", "-", "1">>
    /\ ret.value.issue_id = <<"Z", "-", "9", "2">>
    /\ ret.value.detected_pattern = "jira_key"

\* C24: detect_issue_context never raises; an absent, empty, blank or
\* pattern-free text gives the all-null record; and in every result is_issue
\* is true exactly when issue_type is set and exactly when detected_pattern
\* is set.
C24_Total ==
    Detected =>
        /\ ret.raised = ""
        /\ RuleHits(args.text) = {} => ret.value = AllNull
        /\ ret.value.is_issue <=> ret.value.issue_type # Absent
        /\ ret.value.is_issue <=> ret.value.detected_pattern # Absent

C24_Witness ==
    /\ Detected
    /\ args.text = <<" ", " ">>
    /\ ret = Ret(AllNull)

\* The text starts with owner/repo#n.
StartsOwnerRepo(t) ==
    \E a \in 1..Len(t), b \in 1..Len(t) :
        /\ \A k \in 1..a : t[k] # "/"
        /\ a + 1 <= Len(t) /\ t[a + 1] = "/"
        /\ b >= a + 2 /\ \A k \in (a + 2)..b : t[k] # "#"
        /\ b + 2 <= Len(t) /\ t[b + 1] = "#" /\ t[b + 2] \in Digits

\* C25: detect_ticket_source is "file" whenever a file is named; otherwise
\* "jira" for a text with an uppercase key or an Atlassian host, otherwise
\* "github" for a text with github.com or starting with owner/repo#n,
\* otherwise "raw" (also for an absent or empty text).
C25_TicketSource ==
    Sourced =>
        LET t == args.text
        IN /\ ret.raised = ""
           /\ ret.value \in {"file", "jira", "github", "raw"}
           /\ ret.value =
                 IF args.file_given THEN "file"
                 ELSE IF HasKey(t) \/ Contains(t, AtlassianNet) THEN "jira"
                 ELSE IF Contains(t, GithubCom) \/ StartsOwnerRepo(t) THEN "github"
                 ELSE "raw"

C25_Witness ==
    /\ Sourced
    /\ args.file_given
    /\ HasKey(args.text)
    /\ ret = Ret("file")

(***************************************************************************)
(* Properties of load_workflows (SpecLoad).                                *)
(***************************************************************************)
Loaded == args.call = "load_workflows"
\* The file is one whose workflows the merge takes in.
Defines(doc) == doc.kind = "mapping" /\ doc.wf_kind = "mapping"
Mergeable(doc) ==
    \/ doc.kind \in {"missing", "unparseable", "empty"}
    \/ doc.kind = "mapping" /\ doc.wf_kind \in {"absent", "mapping"}
EntriesOf(doc) == IF Defines(doc) THEN doc.entries ELSE NoEntries
\* The definition an entry of a file stands for, every field from that entry.
DefinitionOf(name, e) ==
    [name |-> name,
     description |-> IF e.description = Absent THEN "" ELSE e.description,
     tool_default |-> e.tool,
     steps |-> [i \in 1..Len(e.steps) |->
                  [name |-> e.steps[i].name, prompt |-> e.steps[i].prompt,
                   tool |-> e.steps[i].tool, timeout_sec |-> e.steps[i].timeout_sec,
                   retries |-> e.steps[i].retries]]]
LacksNameOrPrompt(e) ==
    e.mapping /\ \E i \in 1..Len(e.steps) :
                    e.steps[i].name \in {Absent, ""} \/ e.steps[i].prompt \in {Absent, ""}
ValidEntry(e) ==
    /\ e.mapping
    /\ ~LacksNameOrPrompt(e)
    /\ \A i \in 1..Len(e.steps) : e.steps[i].numeric
WarningsNaming(name) ==
    Cardinality({i \in 1..Len(ret.value.warnings) : ret.value.warnings[i].name = name})

\* C26: a workflow the project file defines under the name of a template
\* workflow is returned as the project defines it, no field taken from the
\* template; template workflows the project does not define are returned as
\* the template defines them.
C26_ProjectOverrides ==
    (Loaded /\ Defines(args.template) /\ Mergeable(args.project)) =>
        LET te == args.template.entries
            pe == EntriesOf(args.project)
            got == ret.value.workflows
        IN /\ ret.raised = ""
           /\ \A name \in DOMAIN te \cap DOMAIN pe :
                 /\ name \in DOMAIN got <=> ValidEntry(pe[name])
                 /\ name \in DOMAIN got => got[name] = DefinitionOf(name, pe[name])
           /\ \A name \in DOMAIN te \ DOMAIN pe :
                 /\ name \in DOMAIN got <=> ValidEntry(te[name])
                 /\ name \in DOMAIN got => got[name] = DefinitionOf(name, te[name])

C26_Witness ==
    /\ Loaded
    /\ Defines(args.template) /\ Defines(args.project)
    /\ DOMAIN args.template.entries = {"demo", "other"}
    /\ args.template.entries["demo"] = DemoFull
    /\ args.project.entries["demo"] = DemoBare
    /\ ret.raised = ""
    /\ ret.value.workflows["demo"].description = ""
    /\ ret.value.workflows["demo"].tool_default = Absent
    /\ ret.value.workflows["other"] = DefinitionOf("other", DemoFull)

\* C27: when the two files merge, a workflow with a step lacking a name or a
\* prompt is not returned and has exactly one warning; every valid workflow
\* of the merged set is returned; and each merged name is either returned or
\* warned about, never both.
C27_AllOrNothing ==
    (Loaded /\ Mergeable(args.template) /\ Mergeable(args.project)) =>
        LET te == EntriesOf(args.template)
            pe == EntriesOf(args.project)
            merged(name) == IF name \in DOMAIN pe THEN pe[name] ELSE te[name]
            got == ret.value.workflows
        IN /\ ret.raised = ""
           /\ DOMAIN got \subseteq DOMAIN te \cup DOMAIN pe
           /\ \A i \in 1..Len(ret.value.warnings) :
                 ret.value.warnings[i].name \in DOMAIN te \cup DOMAIN pe
           /\ \A name \in DOMAIN te \cup DOMAIN pe :
                 /\ LacksNameOrPrompt(merged(name)) =>
                       name \notin DOMAIN got /\ WarningsNaming(name) = 1
                 /\ ValidEntry(merged(name)) =>
                       name \in DOMAIN got /\ WarningsNaming(name) = 0
                 /\ name \in DOMAIN got <=> WarningsNaming(name) = 0
                 /\ WarningsNaming(name) <= 1

C27_Witness ==
    /\ Loaded
    /\ Defines(args.template) /\ Defines(args.project)
    /\ args.template.entries = [n \in {"demo"} |-> DemoFull]
    /\ DOMAIN args.project.entries = {"demo", "mine"}
    /\ args.project.entries["demo"] = DemoNoPrompt
    /\ args.project.entries["mine"] = DemoBare
    /\ ret.raised = ""
    /\ DOMAIN ret.value.workflows = {"mine"}
    /\ ret.value.warnings = <<[name |-> "demo", exc |-> "ValueError"]>>

\* C28: load_workflows never raises, whatever the two files contain.
C28_NeverRaises ==
    Loaded => ret.raised = ""

(***************************************************************************)
(* Order and termination of execute_manifest (SpecExec, SpecExecFair).      *)
(***************************************************************************)
StartedAt(i) == data.steps[i].output.started_at
EndedAt(i) == data.steps[i].output.ended_at

\* The timestamps of the steps attempted in this run follow the list order.
C29_Times ==
    \A i \in 1..Len(data.steps) :
        Attempted(i) =>
            /\ idx > i => StartedAt(i) <= EndedAt(i)
            /\ \A j \in (i + 1)..Len(data.steps) :
                  Attempted(j) => EndedAt(i) <= StartedAt(j)
            /\ Returned =>
                  /\ EndedAt(i) <= data.completed_at
                  /\ JsonLoads(file).steps[i].output.ended_at <= file.completed_at

\* A runner call is one call, on the current step, and no later step has
\* been attempted before it.
C29_Order ==
    \A i \in Steps :
        (runs'[i] # runs[i] /\ runs'[i] # <<>>) =>
            /\ pc = "while" /\ idx = i
            /\ Len(runs'[i]) = Len(runs[i]) + 1
            /\ \A j \in Steps : j # i => runs'[j] = runs[j]
            /\ \A j \in Steps : j > i => runs[j] = <<>>
            /\ \A j \in Steps : j < i => idx > j

\* C29: execute_manifest calls the runner on the steps in list order, all
\* attempts of a step before the first attempt of the next, one call at a
\* time, and started_at <= ended_at <= the next attempted step's started_at
\* <= completed_at for each attempted step.
C29_Sequential == []C29_Times /\ [][C29_Order]_vars

C29_Witness ==
    /\ Returned
    /\ Len(runs[1]) = 2 /\ ~runs[1][1].ok /\ runs[1][2].ok
    /\ Attempted(2)
    /\ StartedAt(1) < StartedAt(2)
    /\ EndedAt(2) = file.completed_at

RECURSIVE BudgetSum(_, _)
BudgetSum(steps, n) ==
    IF n = 0 THEN 0 ELSE BudgetSum(steps, n - 1) + steps[n].retries + 1
RECURSIVE CallSum(_)
CallSum(n) == IF n = 0 THEN 0 ELSE CallSum(n - 1) + Len(runs[n])

C30_Bound ==
    /\ \A i \in EntrySteps : Len(runs[i]) <= entry.steps[i].retries + 1
    /\ CallSum(Len(entry.steps)) <= BudgetSum(entry.steps, Len(entry.steps))
    /\ Returned => file.completed_at # 0 /\ file.completed_at = data.completed_at

NotRun(d) == {i \in 1..Len(d.steps) : d.steps[i].output.status = "not-run"}
\* names lists the steps of d at the indices of S, in list order.
ListsInOrder(names, d, S) ==
    /\ Len(names) = Cardinality(S)
    /\ \E f \in [1..Len(names) -> 1..Len(d.steps)] :
          /\ {f[k] : k \in 1..Len(names)} = S
          /\ \A k \in 1..Len(names) : \A l \in 1..Len(names) : k < l => f[k] < f[l]
          /\ \A k \in 1..Len(names) : names[k] = d.steps[f[k]].name

\* C31: validate() returns the names of the steps that are "not-run", in
\* manifest order, the empty list exactly when there is none, and changes
\* neither the object's manifest nor the file.
C31_Validate ==
    [][\A o \in Objs :
          Validate(o) =>
              /\ ret'.raised = ""
              /\ ret'.value.kind = "list"
              /\ ListsInOrder(ret'.value.text, obj[o].data, NotRun(obj[o].data))
              /\ ret'.value.text = <<>> <=> NotRun(obj[o].data) = {}
              /\ obj' = obj
              /\ file' = file
      ]_vars

C31_Witness ==
    /\ ret = Ret(NameList(<<"b">>))
    /\ obj["assistant"].live
    /\ obj["assistant"].data.steps[1].output.status = "failed"
    /\ obj["assistant"].data.steps[2].output.status = "not-run"

\* C39: in the summary of check_workflow_status completed + errors + pending
\* is the number of steps, every step that is "error" or "failed" is counted
\* under errors, and the manifest is not modified.
C39_FailuresAreErrors ==
    [][CheckWorkflowStatus =>
          LET d == JsonLoads(file)
              counted == ret'.value
          IN /\ counted.completed + counted.errors + counted.pending = Len(d.steps)
             /\ counted.errors =
                   Cardinality({i \in 1..Len(d.steps) :
                                   d.steps[i].output.status \in {"error", "failed"}})
             /\ file' = file
      ]_vars

\* C38: mark_steps_complete changes only the steps that are "not-run" (only
\* the named one when a step is named) and sets them "ok"; every other step
\* stays as it is; completed_at changes only when every step is "ok"
\* afterwards and it was not set; with no "not-run" step the file is not
\* rewritten.
C38_Targets(d, n) ==
    {i \in 1..Len(d.steps) :
        /\ d.steps[i].output.status = "not-run"
        /\ n = AllSteps \/ d.steps[i].name = n}
C38_MarksOnlyNotRun ==
    [][\A n \in Names \cup {AllSteps} :
          MarkStepsComplete(n) =>
              LET before == JsonLoads(file)
                  after == JsonLoads(file')
              IN /\ Len(after.steps) = Len(before.steps)
                 /\ \A i \in 1..Len(before.steps) :
                       IF i \in C38_Targets(before, n)
                       THEN after.steps[i].output.status = "ok"
                       ELSE after.steps[i] = before.steps[i]
                 /\ after.completed_at # before.completed_at =>
                       /\ before.completed_at = 0
                       /\ \A i \in 1..Len(after.steps) :
                             after.steps[i].output.status = "ok"
                 /\ NotRun(before) = {} => file' = file
      ]_vars

\* The command has marked step "b" while step "a", marked failed, stayed as
\* it was, and the manifest got no completed_at.
C38_Witness ==
    LET d == JsonLoads(file)
    IN /\ d.steps[1].output.status = "failed"
       /\ d.steps[2].output.status = "ok"
       /\ d.steps[2].output.result = Str(ManualText)
       /\ d.completed_at = 0

\* C36: a later execute_manifest attempts every step that an earlier run left
\* "error" or an assistant marked "failed", with a fresh budget of retries + 1
\* runner calls: the step is called at least once, at most retries + 1 times,
\* exactly retries + 1 times when every call raises, and it is "ok" as soon as
\* one call returns.
C36_LeftFailed(i) == entry.steps[i].output.status \in {"error", "failed"}
C36_Reattempted ==
    \A i \in EntrySteps :
        LET r == entry.steps[i].retries
        IN (C36_LeftFailed(i) /\ idx > i) =>
              /\ Attempted(i)
              /\ Len(runs[i]) <= r + 1
              /\ AllRaised(i) => Len(runs[i]) = r + 1
              /\ ~AllRaised(i) => data.steps[i].output.status = "ok"

\* C37: when the project file defines, under the name of a valid template
\* workflow, a workflow that fails validation, load_workflows returns no
\* workflow under that name (the template's definition is not used instead)
\* and its warnings name it.
C37_NoTemplateFallback ==
    (Loaded /\ Defines(args.template) /\ Defines(args.project)) =>
        LET te == args.template.entries
            pe == args.project.entries
        IN \A name \in DOMAIN te \cap DOMAIN pe :
              (ValidEntry(te[name]) /\ ~ValidEntry(pe[name])) =>
                  /\ ret.raised = ""
                  /\ name \notin DOMAIN ret.value.workflows
                  /\ WarningsNaming(name) = 1

\* The template's "demo" is valid, the project's lacks a prompt in its second
\* step: "demo" is not returned while the template's "other" is.
C37_Witness ==
    /\ Loaded
    /\ Defines(args.template) /\ Defines(args.project)
    /\ DOMAIN args.template.entries = {"demo", "other"}
    /\ "demo" \in DOMAIN args.project.entries
    /\ args.template.entries["demo"] = DemoFull
    /\ args.project.entries["demo"] = DemoNoPrompt
    /\ ret.raised = ""
    /\ DOMAIN ret.value.workflows = {"other"}
    /\ ret.value.warnings = <<[name |-> "demo", exc |-> "ValueError"]>>

(***************************************************************************)
(* Properties of ensure_workflows_file (SpecEnsure).                       *)
(***************************************************************************)
\* C34: ensure_workflows_file returns an existing project workflows file
\* with its contents untouched, and a second call under the same conditions
\* leaves the file as the first call left it; once the file exists no call
\* changes it, whatever the conditions.
C34_Idempotent ==
    [][EnsureWorkflowsFileCall =>
          /\ workflows_file.kind # "missing" =>
                /\ workflows_file' = workflows_file
                /\ ret' = Ret(WorkflowsPath)
          /\ EnsureWorkflowsFile(workflows_file', args.template, args'.disk).file
                = workflows_file'
          /\ \A disk \in DiskOutcomes :
                workflows_file'.kind # "missing" =>
                    EnsureWorkflowsFile(workflows_file', args.template, disk).file
                        = workflows_file'
      ]_vars

\* The call returned the path of a file of the user's that differs from the
\* template.
C34_Witness ==
    /\ args.call = "ensure_workflows_file"
    /\ ret = Ret(WorkflowsPath)
    /\ workflows_file.kind = "mapping" /\ args.template.kind = "mapping"
    /\ workflows_file # args.template
    /\ "mine" \in DOMAIN workflows_file.entries

(***************************************************************************)
(* Properties of handoff_to_assistant (SpecHandoff).                       *)
(***************************************************************************)
HandedOff == args.call = "handoff_to_assistant"
Printed(says) == \E k \in 1..Len(handoff.console) : handoff.console[k].says = says
PrintedPath(path) == \E k \in 1..Len(handoff.console) : handoff.console[k].path = path
\* The lines of the handoff that tell where to install an assistant from.
InstallHints == {"Install Cursor from:"}

\* C32: a handoff to claude, codex, gemini, ollama or cursor whose binary is
\* not installed launches no process and prints an install hint and the path
\* of the manifest.
C32_InstallHint ==
    (/\ HandedOff
     /\ args.assistant \in {"claude", "codex", "gemini", "ollama", "cursor"}
     /\ args.assistant \notin args.installed) =>
        /\ handoff.pc = "returned"
        /\ handoff.launched = <<>>
        /\ \E hint \in InstallHints : Printed(hint)
        /\ PrintedPath(args.manifest_path)

\* The handoff has returned after a failure: the assistant exited non-zero,
\* could not be started, or has no command line.
ExitedNonZero == handoff.pc = "returned" /\ Printed("exited with code")
NotStarted ==
    /\ handoff.pc = "returned"
    /\ Printed("Failed to launch assistant") \/ Printed("Failed to launch Cursor")
NoCliForm ==
    /\ handoff.pc = "returned"
    /\ Printed("No handoff command available") \/ Printed("Cursor is not installed.")
HandoffFailed == ExitedNonZero \/ NotStarted \/ NoCliForm

C33_PathReported ==
    (HandedOff /\ HandoffFailed) =>
        /\ PrintedPath(handoff.path)
        /\ handoff.path = args.manifest_path
        /\ handoff.launched = <<>> => file = handoff.before
C33_OwnSteps == handoff' # handoff => file' = file
Commanded == args.call = "workflow"
CommandManifest == JsonLoads(made[Len(made)].text)

\* C35: the assistant of each step of the manifest is tool_override when it
\* is set, else the step's tool, else the workflow's default tool, else the
\* AIDEV_DEFAULT_ASSISTANT value, else the project default, else "claude".
C35_AssistantPerStep ==
    Commanded =>
        LET w == args.workflow
            m == CommandManifest
        IN /\ Len(m.steps) = Len(w.steps)
           /\ \A i \in 1..Len(w.steps) :
                 m.steps[i].assistant =
                    IF Truthy(args.tool_override) THEN args.tool_override
                    ELSE IF Truthy(w.steps[i].tool) THEN w.steps[i].tool
                    ELSE IF Truthy(w.tool_default) THEN w.tool_default
                    ELSE IF Truthy(args.env_default) THEN args.env_default
                    ELSE IF Truthy(args.project_default_assistant)
                    THEN args.project_default_assistant
                    ELSE "claude"

\* The step's own tool beat the workflow's default, and the defaults of the
\* environment and of the project, in one step; the workflow's default beat
\* both in the other.
C35_Witness ==
    /\ Commanded
    /\ ~Truthy(args.tool_override)
    /\ args.workflow.tool_default = "codex"
    /\ args.env_default = "ollama"
    /\ args.project_default_assistant = "zed"
    /\ CommandManifest.steps[1].assistant = "gemini"
    /\ CommandManifest.steps[2].assistant = "codex"

\* C40: the assistant the command hands the manifest off to is the assistant
\* recorded in the steps of the manifest.
C40_SameAssistant ==
    (Commanded /\ args.handoff) =>
        \A i \in 1..Len(CommandManifest.steps) :
            CommandManifest.steps[i].assistant = handoff.assistant

====
